---- MODULE Spec2Model ----
(***************************************************************************)
(* Model of the llm-gateway streaming paths (src/src/streaming.rs):       *)
(*   - the drain task spawned by stream_messages, which transcodes an      *)
(*     OpenAI SSE delta stream into Anthropic SSE events (StreamState,     *)
(*     handle_openai_chunk, ensure_*_block, flush_open_blocks);            *)
(*   - the relay task spawned by stream_anthropic_passthrough;             *)
(*   - the POST /v1/messages handler (src/src/handlers.rs) around them:    *)
(*     validation, admission through the inflight semaphore, the exit      *)
(*     paths of the handler and of the spawned tasks, the InflightGuard    *)
(*     (src/src/state.rs) and the audit queue (src/src/audit_log.rs).      *)
(* One action consumes one upstream item (a data line for the drain task,  *)
(* a byte chunk for the relay) and runs the whole handler on it.           *)
(*                                                                         *)
(* Encodings: Option<T> is a sequence of length 0 (None) or 1 (Some(v));   *)
(* a String is a sequence of one-character strings.                        *)
(***************************************************************************)
EXTENDS Integers, Sequences, FiniteSets, TLC

VARIABLES
    pc,                    \* position of the drain task: "drain" | "done"
    frames,                \* number of upstream chunks handled so far
    tx,                    \* SSE events handed to tx.send by the drain task, in order
    started,               \* StreamState.started
    next_index,            \* StreamState.next_index
    text_block_index,      \* StreamState.text_block_index : Option<u32>
    thinking_block_index,  \* StreamState.thinking_block_index : Option<u32>
    tool_calls,            \* StreamState.tool_calls : HashMap<u32, ToolCallState>
    metric_errors,         \* metrics.errors, as the sequence of recorded kinds
    flush_calls,           \* number of calls of flush_open_blocks so far
    relay_pc,              \* position of the relay task: "relay" | "done"
    relay_n,               \* number of upstream items the relay has consumed
    relay_upstream,        \* byte chunks the relay read from the upstream, in order
    relay_tx,              \* items the relay sent downstream, in order
    rx_open,               \* the receiver of the response channel still exists
    audit_buf,             \* relay: bytes captured for the audit record
    audit_truncated,       \* relay: audit capture was cut
    relay_errors,          \* relay: metrics.errors, as the sequence of kinds
    relay_audit,           \* relay: records pushed to the audit logger
    forward_mode,          \* config.forward_mode(): "translate" | "passthrough"
    audit_enabled,         \* state.audit_logger is Some and audit_log.enabled
    permits,               \* free permits of the semaphore state.inflight
    holders,               \* requests that own an OwnedSemaphorePermit
    inflight_count,        \* state.inflight_count
    guards,                \* requests that own a live InflightGuard
    req_pc,                \* position of each request of post_messages
    exit_path,             \* the path on which each request left, once it has
    errors_added,          \* kinds added to metrics.errors, per request
    audit_pushed,          \* statuses of the audit records pushed, per request
    response,              \* Option: what the handler returned, per request
    audit_room,            \* the audit queue holds fewer records than its capacity
    audit_len,             \* number of records in the audit queue
    push_pc,               \* position of each caller of AuditLogger::push
    REQUEST_COUNTER,       \* the static REQUEST_COUNTER of handlers.rs
    request_seq,           \* counter part of each request's request_id (0: none yet)
    upstream,              \* the upstream response each pass-through request received
    allowlist,             \* config.models.allowlist
    blocklist,             \* config.models.blocklist
    model_map,             \* config.models.model_map
    payload_model,         \* the "model" member of the request body, if any
    route_pc,              \* "idle", "start" or "done"
    route_result,          \* what post_messages did with the model name
    tr_pc,                 \* "idle", "request", "response", "request_done", "response_done"
    tr_config,             \* the configuration anthropic_to_openai reads
    anthropic_req,         \* the AnthropicRequest given to anthropic_to_openai
    openai_req,            \* its result
    openai_resp,           \* the OpenAIResponse given to openai_to_anthropic
    anthropic_resp,        \* its result
    clock,                 \* now_ms()
    base_path,             \* the base path given to AuditLogger::new
    worker_pc,             \* "idle", "new", "running" or "stopped"
    current_path,          \* the audit worker's current_path
    file,                  \* the path its open file handle was opened at
    current_size,          \* its size counter
    log_files,             \* the content of every log file, by path
    dequeued,              \* number of records the worker has taken off the queue
    last_io,               \* the record taken last and how its file operations went
    hdr_pc,                \* "idle", "start", "context" or "finished"
    request_headers,       \* the HeaderMap of the client's request
    response_headers,      \* the HeaderMap given to AuditContext::finish
    audit_context,         \* Option: request_headers of the AuditContext
    audit_record,          \* Option: the header maps of the AuditLogRecord
    split_pc,              \* "idle", "read" or "done"
    wire,                  \* every byte the upstream sends on one stream
    rest,                  \* the bytes not yet delivered by stream.next()
    buffer,                \* the drain task's line buffer
    payloads               \* the data payloads the drain loop has handled

drainVars == <<pc, frames, tx, started, next_index, text_block_index,
               thinking_block_index, tool_calls, metric_errors, flush_calls>>
relayVars == <<relay_pc, relay_n, relay_upstream, relay_tx, rx_open, audit_buf,
               audit_truncated, relay_errors, relay_audit>>
gateVars == <<forward_mode, audit_enabled, permits, holders, inflight_count, guards,
              req_pc, exit_path, errors_added, audit_pushed, response,
              audit_room>>
auditVars == <<audit_len, push_pc>>
idVars == <<REQUEST_COUNTER, request_seq>>
routeVars == <<allowlist, blocklist, model_map, payload_model, route_pc, route_result>>
translateVars == <<tr_pc, tr_config, anthropic_req, openai_req, openai_resp, anthropic_resp>>
rotateVars == <<clock, base_path, worker_pc, current_path, file, current_size, log_files,
                dequeued, last_io>>
headerVars == <<hdr_pc, request_headers, response_headers, audit_context, audit_record>>
splitVars == <<split_pc, wire, rest, buffer, payloads>>
lateVars == <<headerVars, splitVars>>
otherVars == <<routeVars, translateVars, rotateVars, lateVars>>
serverVars == <<drainVars, relayVars, gateVars, auditVars, idVars, upstream>>
extraVars == <<upstream, otherVars>>
vars == <<pc, frames, tx, started, next_index, text_block_index,
          thinking_block_index, tool_calls, metric_errors, flush_calls,
          relay_pc, relay_n, relay_upstream, relay_tx, rx_open, audit_buf,
          audit_truncated, relay_errors, relay_audit,
          forward_mode, audit_enabled, permits, holders, inflight_count, guards,
          req_pc, exit_path, errors_added, audit_pushed, response,
          audit_room, audit_len, push_pc, REQUEST_COUNTER, request_seq, upstream,
          allowlist, blocklist, model_map, payload_model, route_pc, route_result,
          tr_pc, tr_config, anthropic_req, openai_req, openai_resp, anthropic_resp,
          clock, base_path, worker_pc, current_path, file, current_size, log_files,
          dequeued, last_io,
          hdr_pc, request_headers, response_headers, audit_context, audit_record,
          split_pc, wire, rest, buffer, payloads>>

----------------------------------------------------------------------------
(* Bounds and input alphabets                                              *)

\* number of upstream chunks one modelled stream may carry before it ends
MaxChunks == 2
\* number of upstream byte chunks one modelled relay may carry
MaxRelayChunks == 4
\* config.observability.audit_log.max_body_bytes of the modelled gateway
max_body_bytes == 3

None == <<>>
Some(v) == <<v>>

\* upstream tool-call indexes that occur in the modelled streams
ToolIndices == {0, 1}

\* argument fragments: strings over the alphabet { "{", "}" }
ArgFragments == { <<>>, <<"{">>, <<"}">>, <<"{", "}">> }

\* serde_json::from_str::<Value> on a string over that alphabet succeeds
\* exactly on "{}" (the empty string is an EOF error, anything else is a
\* syntax or trailing-characters error)
IsJson(s) == s = <<"{", "}">>

\* every order in which HashMap::values_mut may visit the modelled keys
IterOrders == { o \in [1..Cardinality(ToolIndices) -> ToolIndices] :
                  \A i, j \in DOMAIN o : i # j => o[i] # o[j] }

----------------------------------------------------------------------------
(* Downstream events (sse_event, error_event)                              *)

NoIndex == -1

Ev(name, index, typ, data) ==
    [event |-> name, index |-> index, typ |-> typ, data |-> data]

sse_message_start == Ev("message_start", NoIndex, "", <<>>)
sse_message_stop == Ev("message_stop", NoIndex, "", <<>>)
sse_message_delta(stop_reason) == Ev("message_delta", NoIndex, stop_reason, <<>>)
sse_block_start(index, typ) == Ev("content_block_start", index, typ, <<>>)
sse_block_delta(index, typ, data) == Ev("content_block_delta", index, typ, data)
sse_block_stop(index) == Ev("content_block_stop", index, "", <<>>)

AppError_invalid_request(message) ==
    [status |-> 400, error_type |-> "invalid_request_error", message |-> message]
AppError_api_error(message) ==
    [status |-> 502, error_type |-> "api_error", message |-> message]

error_event(err) == Ev("error", NoIndex, err.error_type, <<err.message>>)

map_finish_reason(reason) ==
    CASE reason = "stop" -> "end_turn"
      [] reason = "length" -> "max_tokens"
      [] reason = "tool_calls" -> "tool_use"
      [] OTHER -> "end_turn"

----------------------------------------------------------------------------
(* StreamState as a value, threaded through the handler together with the  *)
(* channel tx and the count of flushes                                     *)

StreamStateNow ==
    [started |-> started, next_index |-> next_index,
     text_block_index |-> text_block_index,
     thinking_block_index |-> thinking_block_index,
     tool_calls |-> tool_calls, tx |-> tx, flushes |-> flush_calls]

\* tx.send(..).await with the result ignored
Send(s, e) == [s EXCEPT !.tx = Append(@, e)]

Ok(s) == [s |-> s, err |-> None]
Err(s, e) == [s |-> s, err |-> Some(e)]

----------------------------------------------------------------------------
(* ensure_text_block / ensure_thinking_block                               *)

\* ensure_text_block without the early return for an open block
ensure_text_block_reopen(s) ==
    Send([s EXCEPT !.next_index = @ + 1,
                   !.text_block_index = Some(s.next_index)],
         sse_block_start(s.next_index, "text"))

ensure_text_block(s) ==
    IF s.text_block_index # None THEN s
    ELSE Send([s EXCEPT !.next_index = @ + 1,
                        !.text_block_index = Some(s.next_index)],
              sse_block_start(s.next_index, "text"))

ensure_thinking_block(s) ==
    IF s.thinking_block_index # None THEN s
    ELSE Send([s EXCEPT !.next_index = @ + 1,
                        !.thinking_block_index = Some(s.next_index)],
              sse_block_start(s.next_index, "thinking"))

----------------------------------------------------------------------------
(* flush_open_blocks                                                       *)

flush_text_block(s) ==
    IF s.text_block_index # None
    THEN Send([s EXCEPT !.text_block_index = None],
              sse_block_stop(s.text_block_index[1]))
    ELSE s

flush_thinking_block(s) ==
    IF s.thinking_block_index # None
    THEN Send([s EXCEPT !.thinking_block_index = None],
              sse_block_stop(s.thinking_block_index[1]))
    ELSE s

\* body of the loop over state.tool_calls.values_mut() for one entry:
\* the argument check of a started entry, then the stop of an unstopped one
\* flush_tool without the check of the accumulated arguments
flush_tool_unchecked(s, k) ==
    LET tool == s.tool_calls[k] IN
    IF ~tool.stopped
    THEN Ok(Send([s EXCEPT !.tool_calls[k].stopped = TRUE],
                 sse_block_stop(tool.block_index)))
    ELSE Ok(s)

\* flush_tool that stops an entry whether or not it is already stopped
flush_tool_restop(s, k) ==
    LET tool == s.tool_calls[k] IN
    IF tool.started /\ tool.arguments = <<>>
    THEN Err(s, AppError_invalid_request("tool_use arguments empty"))
    ELSE IF tool.started /\ ~IsJson(tool.arguments)
    THEN Err(s, AppError_invalid_request("tool_use arguments invalid json"))
    ELSE Ok(Send([s EXCEPT !.tool_calls[k].stopped = TRUE],
                 sse_block_stop(tool.block_index)))

flush_tool(s, k) ==
    LET tool == s.tool_calls[k] IN
    IF tool.started /\ tool.arguments = <<>>
    THEN Err(s, AppError_invalid_request("tool_use arguments empty"))
    ELSE IF tool.started /\ ~IsJson(tool.arguments)
    THEN Err(s, AppError_invalid_request("tool_use arguments invalid json"))
    ELSE IF ~tool.stopped
    THEN Ok(Send([s EXCEPT !.tool_calls[k].stopped = TRUE],
                 sse_block_stop(tool.block_index)))
    ELSE Ok(s)

\* the loop, visiting the entries in the order `order` (the HashMap's)
RECURSIVE flush_tools(_, _)
flush_tools(s, order) ==
    IF order = <<>> THEN Ok(s)
    ELSE IF Head(order) \notin DOMAIN s.tool_calls
    THEN flush_tools(s, Tail(order))
    ELSE LET r == flush_tool(s, Head(order)) IN
         IF r.err # None THEN r ELSE flush_tools(r.s, Tail(order))

flush_open_blocks(s, order) ==
    flush_tools(flush_thinking_block(flush_text_block(
                    [s EXCEPT !.flushes = @ + 1])), order)

----------------------------------------------------------------------------
(* handle_openai_chunk                                                     *)

\* if !state.started { ...; send message_start }
handle_first_chunk(s) ==
    IF ~s.started
    THEN Send([s EXCEPT !.started = TRUE], sse_message_start)
    ELSE s

\* if let Some(delta) = choice.delta.content
handle_content(s, content) ==
    IF content # None /\ content[1] # <<>>
    THEN LET s1 == ensure_text_block(s) IN
         Send(s1, sse_block_delta(s1.text_block_index[1], "text_delta", content[1]))
    ELSE s

\* if let Some(reasoning) = choice.delta.reasoning_content
\* A JSON value is modelled by its kind: "object" (an object that
\* deserialises as OpenAIReasoningContentDelta, with its two optional
\* fields), "badobject" (an object that does not), "string", "other".
handle_reasoning(s, reasoning) ==
    IF reasoning = None THEN s
    ELSE LET v == reasoning[1] IN
         IF v.kind = "object"
         THEN LET s1 == ensure_thinking_block(s)
                  index == s1.thinking_block_index[1]
                  s2 == IF v.thinking # None
                        THEN Send(s1, sse_block_delta(index, "thinking_delta", v.thinking[1]))
                        ELSE s1
              IN IF v.signature # None
                 THEN Send(s2, sse_block_delta(index, "signature_delta", v.signature[1]))
                 ELSE s2
         ELSE IF v.kind = "string"
         THEN LET s1 == ensure_thinking_block(s) IN
              Send(s1, sse_block_delta(s1.thinking_block_index[1], "thinking_delta",
                                       v.thinking[1]))
         ELSE s

\* state.tool_calls.entry(call.index).or_insert_with(..)
tool_entry(s, index) ==
    IF index \in DOMAIN s.tool_calls THEN s
    ELSE [s EXCEPT !.next_index = @ + 1,
                   !.tool_calls = @ @@ (index :>
                       [id |-> None, name |-> None, arguments |-> <<>>,
                        block_index |-> s.next_index,
                        started |-> FALSE, stopped |-> FALSE])]

\* tool_merge that never sends the fragment of a started entry
tool_merge_silent(s, call) ==
    LET k == call.index
        s1 == IF call.id # None
              THEN [s EXCEPT !.tool_calls[k].id = call.id] ELSE s
    IN IF call.function = None THEN s1
       ELSE LET f == call.function[1]
                s2 == IF f.name # None
                      THEN [s1 EXCEPT !.tool_calls[k].name = f.name] ELSE s1
            IN IF f.arguments = None THEN s2
               ELSE [s2 EXCEPT !.tool_calls[k].arguments = @ \o f.arguments[1]]

\* merge of id, name and arguments; a fragment for a started entry is sent
tool_merge(s, call) ==
    LET k == call.index
        s1 == IF call.id # None
              THEN [s EXCEPT !.tool_calls[k].id = call.id] ELSE s
    IN IF call.function = None THEN s1
       ELSE LET f == call.function[1]
                s2 == IF f.name # None
                      THEN [s1 EXCEPT !.tool_calls[k].name = f.name] ELSE s1
            IN IF f.arguments = None THEN s2
               ELSE LET s3 == [s2 EXCEPT !.tool_calls[k].arguments = @ \o f.arguments[1]]
                    IN IF s3.tool_calls[k].started
                       THEN Send(s3, sse_block_delta(s3.tool_calls[k].block_index,
                                                     "input_json_delta", f.arguments[1]))
                       ELSE s3

\* tool_start that forgets the arguments buffered before the start
tool_start_drop_buffer(s, k) ==
    LET entry == s.tool_calls[k] IN
    IF ~entry.started /\ entry.id # None /\ entry.name # None
    THEN Send([s EXCEPT !.tool_calls[k].started = TRUE],
              sse_block_start(entry.block_index, "tool_use"))
    ELSE s

\* if !entry.started && entry.id.is_some() && entry.name.is_some()
tool_start(s, k) ==
    LET entry == s.tool_calls[k] IN
    IF ~entry.started /\ entry.id # None /\ entry.name # None
    THEN LET s1 == Send([s EXCEPT !.tool_calls[k].started = TRUE],
                        sse_block_start(entry.block_index, "tool_use"))
         IN IF entry.arguments # <<>>
            THEN Send(s1, sse_block_delta(entry.block_index, "input_json_delta",
                                          entry.arguments))
            ELSE s1
    ELSE s

handle_tool_call(s, call) ==
    tool_start(tool_merge(tool_entry(s, call.index), call), call.index)

\* for call in tool_calls
RECURSIVE handle_tool_calls(_, _)
handle_tool_calls(s, calls) ==
    IF calls = <<>> THEN s
    ELSE handle_tool_calls(handle_tool_call(s, Head(calls)), Tail(calls))

\* if let Some(finish) = choice.finish_reason
handle_finish(s, finish_reason, order) ==
    IF finish_reason = None THEN Ok(s)
    ELSE LET r == flush_open_blocks(s, order) IN
         IF r.err # None THEN r
         ELSE Ok(Send(r.s, sse_message_delta(map_finish_reason(finish_reason[1]))))

handle_openai_chunk(s, parsed, order) ==
    LET s1 == handle_first_chunk(s) IN
    IF parsed.choices = <<>> THEN Ok(s1)
    ELSE LET choice == parsed.choices[1]
             s2 == handle_content(s1, choice.delta.content)
             s3 == handle_reasoning(s2, choice.delta.reasoning_content)
             s4 == handle_tool_calls(s3, IF choice.delta.tool_calls = None THEN <<>>
                                         ELSE choice.delta.tool_calls[1])
         IN handle_finish(s4, choice.finish_reason, order)

----------------------------------------------------------------------------
(* Upstream inputs of the drain task                                       *)

NoDelta == [content |-> None, reasoning_content |-> None, tool_calls |-> None]

ContentValues == { <<>>, <<"t">> }

ReasoningValues ==
    { [kind |-> "string", thinking |-> Some(<<"r">>), signature |-> None],
      [kind |-> "badobject", thinking |-> None, signature |-> None],
      [kind |-> "other", thinking |-> None, signature |-> None] }
    \cup
    { [kind |-> "object", thinking |-> th, signature |-> sg] :
        th \in {None, Some(<<"r">>)}, sg \in {None, Some(<<"g">>)} }

FunctionDeltas ==
    { [name |-> n, arguments |-> a] :
        n \in {None, Some("get_weather")},
        a \in {None} \cup { Some(f) : f \in ArgFragments } }

ToolCallDeltas ==
    { [index |-> i, id |-> d, function |-> f] :
        i \in ToolIndices,
        d \in {None, Some("call_1")},
        f \in {None} \cup { Some(g) : g \in FunctionDeltas } }

\* the delta of a modelled chunk carries at most one of content,
\* reasoning_content and tool_calls (one call); a chunk with several is
\* handled field by field in that order
Deltas ==
    {NoDelta}
    \cup { [NoDelta EXCEPT !.content = Some(c)] : c \in ContentValues }
    \cup { [NoDelta EXCEPT !.reasoning_content = Some(v)] : v \in ReasoningValues }
    \cup { [NoDelta EXCEPT !.tool_calls = Some(<<c>>)] : c \in ToolCallDeltas }

FinishReasons == { "tool_calls" }

Chunks ==
    { [choices |-> <<>>] }
    \cup { [choices |-> << [delta |-> d, finish_reason |-> f] >>] :
             d \in Deltas, f \in {None} \cup { Some(r) : r \in FinishReasons } }

----------------------------------------------------------------------------
(* The drain task of stream_messages                                       *)

Assign(s) ==
    /\ started' = s.started
    /\ next_index' = s.next_index
    /\ text_block_index' = s.text_block_index
    /\ thinking_block_index' = s.thinking_block_index
    /\ tool_calls' = s.tool_calls
    /\ tx' = s.tx
    /\ flush_calls' = s.flushes

\* an error branch of the drain loop: count it, send the error event, return
Fail(s, err) ==
    /\ metric_errors' = Append(metric_errors, err.error_type)
    /\ Assign(Send(s, error_event(err)))
    /\ pc' = "done"

\* a data line that parses as OpenAIStreamChunk
Chunk(parsed, order) ==
    /\ pc = "drain"
    /\ frames < MaxChunks
    /\ frames' = frames + 1
    /\ LET r == handle_openai_chunk(StreamStateNow, parsed, order) IN
       IF r.err = None
       THEN Assign(r.s) /\ UNCHANGED <<pc, metric_errors>>
       ELSE Fail(r.s, r.err[1])
    /\ UNCHANGED <<relayVars, gateVars, auditVars, idVars, extraVars>>

\* the data line "[DONE]"
Done(order) ==
    /\ pc = "drain"
    /\ LET r == flush_open_blocks(StreamStateNow, order) IN
       IF r.err = None
       THEN Assign(Send(r.s, sse_message_stop)) /\ pc' = "done"
            /\ UNCHANGED metric_errors
       ELSE Fail(r.s, r.err[1])
    /\ UNCHANGED <<frames, relayVars, gateVars, auditVars, idVars, extraVars>>

\* a data line that does not parse as OpenAIStreamChunk
InvalidChunk ==
    /\ pc = "drain"
    /\ Fail(StreamStateNow, AppError_api_error("invalid stream chunk"))
    /\ UNCHANGED <<frames, relayVars, gateVars, auditVars, idVars, extraVars>>

\* stream.next() yields Err
ReadError ==
    /\ pc = "drain"
    /\ Fail(StreamStateNow, AppError_api_error("stream error"))
    /\ UNCHANGED <<frames, relayVars, gateVars, auditVars, idVars, extraVars>>

\* stream.next() yields None: the while loop and the task end
UpstreamEnd ==
    /\ pc = "drain"
    /\ pc' = "done"
    /\ UNCHANGED <<frames, tx, started, next_index, text_block_index,
                   thinking_block_index, tool_calls, metric_errors, flush_calls,
                   relayVars, gateVars, auditVars, idVars, extraVars>>

----------------------------------------------------------------------------
(* The relay task of stream_anthropic_passthrough                          *)

Bytes == { <<"a">>, <<"b">>, <<"a", "b">> }

RelayItem(kind, bytes) == [kind |-> kind, bytes |-> bytes]

\* after the loop: the audit record is finished and pushed, the task ends
RelayFinish(buf, truncated) ==
    /\ relay_pc' = "done"
    /\ relay_audit' = Append(relay_audit,
           [status |-> 200, body |-> buf, body_truncated |-> truncated])

\* a tee that looks only at the size and not at audit_truncated
RelayChunk_append_if_fits(bytes) ==
    /\ relay_pc = "relay"
    /\ relay_n < MaxRelayChunks
    /\ relay_n' = relay_n + 1
    /\ relay_upstream' = Append(relay_upstream, bytes)
    /\ LET fits == Len(audit_buf) + Len(bytes) <= max_body_bytes
           buf == IF fits THEN audit_buf \o bytes ELSE audit_buf
           truncated == IF fits THEN audit_truncated ELSE TRUE
       IN /\ audit_buf' = buf
          /\ audit_truncated' = truncated
          /\ IF rx_open
             THEN /\ relay_tx' = Append(relay_tx, RelayItem("bytes", bytes))
                  /\ UNCHANGED <<relay_pc, relay_audit>>
             ELSE /\ RelayFinish(buf, truncated)
                  /\ UNCHANGED relay_tx
    /\ UNCHANGED <<rx_open, relay_errors, drainVars, gateVars, auditVars, idVars, extraVars>>

\* a relay that forwards a chunk only while the audit capture is not cut
RelayChunk_forward_while_captured(bytes) ==
    /\ relay_pc = "relay"
    /\ relay_n < MaxRelayChunks
    /\ relay_n' = relay_n + 1
    /\ relay_upstream' = Append(relay_upstream, bytes)
    /\ LET fits == ~audit_truncated /\ Len(audit_buf) + Len(bytes) <= max_body_bytes
           buf == IF fits THEN audit_buf \o bytes ELSE audit_buf
           truncated == IF fits THEN audit_truncated ELSE TRUE
       IN /\ audit_buf' = buf
          /\ audit_truncated' = truncated
          /\ IF rx_open
             THEN /\ relay_tx' = IF fits THEN Append(relay_tx, RelayItem("bytes", bytes))
                                         ELSE relay_tx
                  /\ UNCHANGED <<relay_pc, relay_audit>>
             ELSE /\ RelayFinish(buf, truncated)
                  /\ UNCHANGED relay_tx
    /\ UNCHANGED <<rx_open, relay_errors, drainVars, gateVars, auditVars, idVars, extraVars>>

\* stream.next() yields Ok(bytes)
RelayChunk(bytes) ==
    /\ relay_pc = "relay"
    /\ relay_n < MaxRelayChunks
    /\ relay_n' = relay_n + 1
    /\ relay_upstream' = Append(relay_upstream, bytes)
    /\ LET fits == ~audit_truncated /\ Len(audit_buf) + Len(bytes) <= max_body_bytes
           buf == IF fits THEN audit_buf \o bytes ELSE audit_buf
           truncated == IF fits THEN audit_truncated ELSE TRUE
       IN /\ audit_buf' = buf
          /\ audit_truncated' = truncated
          /\ IF rx_open
             THEN /\ relay_tx' = Append(relay_tx, RelayItem("bytes", bytes))
                  /\ UNCHANGED <<relay_pc, relay_audit>>
             ELSE /\ RelayFinish(buf, truncated)
                  /\ UNCHANGED relay_tx
    /\ UNCHANGED <<rx_open, relay_errors, drainVars, gateVars, auditVars, idVars, extraVars>>

\* stream.next() yields Err: count the error and leave the loop
RelayReadError ==
    /\ relay_pc = "relay"
    /\ relay_errors' = Append(relay_errors, "api_error")
    /\ RelayFinish(audit_buf, audit_truncated)
    /\ UNCHANGED <<relay_n, relay_upstream, relay_tx, rx_open, audit_buf,
                   audit_truncated, drainVars, gateVars, auditVars, idVars, extraVars>>

\* stream.next() yields None
RelayUpstreamEnd ==
    /\ relay_pc = "relay"
    /\ RelayFinish(audit_buf, audit_truncated)
    /\ UNCHANGED <<relay_n, relay_upstream, relay_tx, rx_open, audit_buf,
                   audit_truncated, relay_errors, drainVars, gateVars, auditVars, idVars, extraVars>>

\* the client of a translate-mode stream goes away: the response body, and
\* with it the receiver of the channel, is dropped; the spawned task is not
\* cancelled, and every tx.send it makes from now on returns Err
DrainClientDisconnect ==
    /\ pc = "drain"
    /\ rx_open
    /\ rx_open' = FALSE
    /\ UNCHANGED <<drainVars, relay_pc, relay_n, relay_upstream, relay_tx,
                   audit_buf, audit_truncated, relay_errors, relay_audit,
                   gateVars, auditVars, idVars, extraVars>>

\* the client goes away: the receiver of the channel is dropped
ClientDisconnect ==
    /\ relay_pc = "relay"
    /\ rx_open
    /\ rx_open' = FALSE
    /\ UNCHANGED <<relay_pc, relay_n, relay_upstream, relay_tx, audit_buf,
                   audit_truncated, relay_errors, relay_audit, drainVars,
                   gateVars, auditVars, idVars, extraVars>>

----------------------------------------------------------------------------
(* Errors of the gateway (src/src/error.rs, src/src/translate.rs)          *)

AppError_rate_limited(message) ==
    [status |-> 429, error_type |-> "rate_limit_error", message |-> message]

TranslateError_invalid_request(message) ==
    [error_type |-> "invalid_request_error", message |-> message]
TranslateError_api_error(message) ==
    [error_type |-> "api_error", message |-> message]

AppError_from_translate(err) ==
    [status |-> 400, error_type |-> err.error_type, message |-> err.message]

\* statuses a downstream may answer with besides success
UpstreamStatuses == { 400, 429, 500, 503 }

map_downstream_error(status) ==
    [status |-> 502,
     error_type |-> CASE status = 400 -> "invalid_request_error"
                      [] status = 401 -> "authentication_error"
                      [] status = 403 -> "permission_error"
                      [] status = 404 -> "not_found_error"
                      [] status = 429 -> "rate_limit_error"
                      [] status = 500 -> "api_error"
                      [] status \in {502, 503, 504} -> "overloaded_error"
                      [] OTHER -> "api_error",
     message |-> "downstream error"]

\* what IntoResponse makes of an AppError, and a response built from Ok(..)
ErrResponse(err) == Some(err)
OkResponse(status) == Some([status |-> status, error_type |-> "", message |-> ""])

----------------------------------------------------------------------------
(* post_messages: validation, admission, exit paths, InflightGuard         *)

\* concurrent requests
Requests == { 1, 2 }
\* config.limits.max_inflight of the modelled gateway
max_inflight == 1

NoExit == [path |-> "", err |-> None, audit |-> None]

\* an error return before a slot was acquired
Reject(r, path, err, counted) ==
    /\ exit_path' = [exit_path EXCEPT ![r] = [path |-> path, err |-> Some(err), audit |-> None]]
    /\ errors_added' = [errors_added EXCEPT ![r] =
                           IF counted THEN Append(@, err.error_type) ELSE @]
    /\ response' = [response EXCEPT ![r] = ErrResponse(err)]
    /\ req_pc' = [req_pc EXCEPT ![r] = "done"]

\* a fetch_add that hands out the counter without advancing it
next_request_id_reuse == [seq |-> REQUEST_COUNTER, counter |-> REQUEST_COUNTER]

\* REQUEST_COUNTER.fetch_add(1, Ordering::Relaxed): the value handed out
\* (the counter part of the request id) and the counter afterwards
next_request_id == [seq |-> REQUEST_COUNTER, counter |-> REQUEST_COUNTER + 1]

\* validation that runs after a permit was taken and returns holding it
Validate_holding(r, outcome) ==
    /\ req_pc[r] = "start"
    /\ request_seq' = [request_seq EXCEPT ![r] = next_request_id.seq]
    /\ REQUEST_COUNTER' = next_request_id.counter
    /\ CASE outcome = "missing_model" ->
              Reject(r, outcome, AppError_invalid_request("model is required"), FALSE)
         [] outcome = "not_in_allowlist" ->
              Reject(r, outcome, AppError_invalid_request("model not in allowlist"), TRUE)
         [] outcome = "blocked" ->
              Reject(r, outcome, AppError_invalid_request("model is blocked"), TRUE)
         [] OTHER ->
              /\ req_pc' = [req_pc EXCEPT ![r] = "admission"]
              /\ UNCHANGED <<exit_path, errors_added, response>>
    /\ permits' = IF outcome # "ok" /\ permits > 0 THEN permits - 1 ELSE permits
    /\ holders' = IF outcome # "ok" /\ permits > 0 THEN holders \cup {r} ELSE holders
    /\ UNCHANGED <<forward_mode, audit_enabled, inflight_count, guards,
                   audit_pushed, audit_room, drainVars, relayVars, auditVars, extraVars>>

\* next_request_id, extract_model, allowlist and blocklist checks
Validate(r, outcome) ==
    /\ req_pc[r] = "start"
    /\ request_seq' = [request_seq EXCEPT ![r] = next_request_id.seq]
    /\ REQUEST_COUNTER' = next_request_id.counter
    /\ CASE outcome = "missing_model" ->
              Reject(r, outcome, AppError_invalid_request("model is required"), FALSE)
         [] outcome = "not_in_allowlist" ->
              Reject(r, outcome, AppError_invalid_request("model not in allowlist"), TRUE)
         [] outcome = "blocked" ->
              Reject(r, outcome, AppError_invalid_request("model is blocked"), TRUE)
         [] OTHER ->
              /\ req_pc' = [req_pc EXCEPT ![r] = "admission"]
              /\ UNCHANGED <<exit_path, errors_added, response>>
    /\ UNCHANGED <<forward_mode, audit_enabled, permits, holders, inflight_count, guards,
                   audit_pushed, audit_room, drainVars, relayVars, auditVars, extraVars>>

ValidateOutcomes == { "missing_model", "not_in_allowlist", "blocked", "ok" }

\* admission that never looks at the free permits
TryAcquire_unlimited(r) ==
    /\ req_pc[r] = "admission"
    /\ permits' = permits - 1
    /\ holders' = holders \cup {r}
    /\ req_pc' = [req_pc EXCEPT ![r] = "acquired"]
    /\ UNCHANGED <<exit_path, errors_added, response>>
    /\ UNCHANGED <<forward_mode, audit_enabled, inflight_count, guards,
                   audit_pushed, audit_room, drainVars, relayVars, auditVars, idVars, extraVars>>

\* state.inflight.clone().try_acquire_owned()
TryAcquire(r) ==
    /\ req_pc[r] = "admission"
    /\ IF permits > 0
       THEN /\ permits' = permits - 1
            /\ holders' = holders \cup {r}
            /\ req_pc' = [req_pc EXCEPT ![r] = "acquired"]
            /\ UNCHANGED <<exit_path, errors_added, response>>
       ELSE /\ Reject(r, "rate_limited",
                      AppError_rate_limited("too many in-flight requests"), TRUE)
            /\ UNCHANGED <<permits, holders>>
    /\ UNCHANGED <<forward_mode, audit_enabled, inflight_count, guards,
                   audit_pushed, audit_room, drainVars, relayVars, auditVars, idVars, extraVars>>

\* InflightGuard::new(p, state.inflight_count.clone())
InflightGuard_new(r) ==
    /\ req_pc[r] = "acquired"
    /\ inflight_count' = inflight_count + 1
    /\ guards' = guards \cup {r}
    /\ req_pc' = [req_pc EXCEPT ![r] = "admitted"]
    /\ UNCHANGED <<forward_mode, audit_enabled, permits, holders, exit_path, errors_added,
                   audit_pushed, response, audit_room, drainVars, relayVars,
                   auditVars, idVars, extraVars>>

\* what one exit path does: the AppError it builds (if any), whether it
\* calls metrics.errors.add, the status of the audit record it pushes (if
\* any), and the response the handler returns on it (if it is the handler's)
Outcome(err, counted, audit, resp) ==
    [err |-> err, counted |-> counted, audit |-> audit, resp |-> resp]
ErrOutcome(err, counted) == Outcome(Some(err), counted, None, ErrResponse(err))
TaskOutcome(err, counted, audit) == Outcome(err, counted, audit, None)

\* the translate branch of post_messages; for a streamed request it runs
\* stream_messages up to the point where the task would be spawned
TranslateOutcome(o, up) ==
    CASE o = "invalid_request" ->
           ErrOutcome(AppError_invalid_request("invalid request"), TRUE)
      [] o = "translate_failed" ->
           ErrOutcome(AppError_from_translate(
                          TranslateError_invalid_request("invalid request")), TRUE)
      [] o = "stream_connect_failed" ->
           ErrOutcome(AppError_api_error("downstream request failed"), FALSE)
      [] o = "stream_upstream_status" ->
           ErrOutcome(map_downstream_error(up), FALSE)
      [] o = "connect_failed" ->
           ErrOutcome(AppError_api_error("downstream request failed"), TRUE)
      [] o = "upstream_status" ->
           ErrOutcome(map_downstream_error(up), TRUE)
      [] o = "invalid_response" ->
           ErrOutcome(AppError_api_error("invalid downstream response"), TRUE)
      [] o = "response_translate_failed" ->
           ErrOutcome(AppError_from_translate(
                          TranslateError_api_error("missing choices in response")), TRUE)
      [] o = "ok" ->
           Outcome(None, FALSE, Some(200), OkResponse(200))

TranslateOutcomes ==
    { "invalid_request", "translate_failed", "stream_connect_failed",
      "stream_upstream_status", "connect_failed", "upstream_status",
      "invalid_response", "response_translate_failed", "ok" }

\* non-success statuses of the upstream in pass-through mode, where the
\* gateway looks at nothing but is_success()
PassthroughStatuses == { 400, 503 }

\* response bodies of the upstream
UpstreamBodies == { <<>>, <<"{", "}">> }

\* response_from_bytes: the given status and the given bytes as the body
response_from_bytes(status, body) ==
    Some([status |-> status, error_type |-> "", message |-> "", body |-> body])

\* a pass-through branch that maps a non-success status of the stream
\* initiation as the translate branch does
PassthroughOutcome_mapped(o, up, body) ==
    CASE o = "stream_connect_failed" ->
           ErrOutcome(AppError_api_error("downstream request failed"), FALSE)
      [] o = "stream_upstream_status" ->
           ErrOutcome(map_downstream_error(up), FALSE)
      [] o = "stream_upstream_status_unread" ->
           ErrOutcome(map_downstream_error(up), FALSE)
      [] o = "connect_failed" ->
           ErrOutcome(AppError_api_error("downstream request failed"), TRUE)
      [] o = "invalid_response" ->
           ErrOutcome(AppError_api_error("invalid downstream response"), TRUE)
      [] o = "upstream_status" ->
           Outcome(None, FALSE, Some(up), response_from_bytes(up, body))
      [] o = "ok" ->
           Outcome(None, FALSE, Some(200), response_from_bytes(200, body))

\* the pass-through branch of post_messages; for a streamed request it runs
\* stream_anthropic_passthrough up to the point where the task would be
\* spawned. A non-success answer to the stream initiation whose body cannot
\* be read is returned with the default (empty) body.
PassthroughOutcome(o, up, body) ==
    CASE o = "stream_connect_failed" ->
           ErrOutcome(AppError_api_error("downstream request failed"), FALSE)
      [] o = "stream_upstream_status" ->
           Outcome(None, FALSE, Some(up), response_from_bytes(up, body))
      [] o = "stream_upstream_status_unread" ->
           Outcome(None, FALSE, Some(up), response_from_bytes(up, <<>>))
      [] o = "connect_failed" ->
           ErrOutcome(AppError_api_error("downstream request failed"), TRUE)
      [] o = "invalid_response" ->
           ErrOutcome(AppError_api_error("invalid downstream response"), TRUE)
      [] o = "upstream_status" ->
           Outcome(None, FALSE, Some(up), response_from_bytes(up, body))
      [] o = "ok" ->
           Outcome(None, FALSE, Some(200), response_from_bytes(200, body))

PassthroughOutcomes ==
    { "stream_connect_failed", "stream_upstream_status", "stream_upstream_status_unread",
      "connect_failed", "invalid_response", "upstream_status", "ok" }

\* the outcomes in which the upstream's response was received
ReceivedOutcomes ==
    { "stream_upstream_status", "stream_upstream_status_unread", "upstream_status", "ok" }

\* the response the gateway received from the upstream: the status and the
\* body as far as it arrived (nothing of it when reading it failed)
UpstreamResponse(o, up, body) ==
    IF o \in ReceivedOutcomes
    THEN Some([status |-> IF o = "ok" THEN 200 ELSE up,
               body |-> IF o = "stream_upstream_status_unread" THEN <<>> ELSE body,
               body_read |-> o # "stream_upstream_status_unread"])
    ELSE None

\* the ways the drain task of stream_messages ends
DrainTaskOutcome(o) ==
    CASE o = "task_done" ->
           TaskOutcome(None, FALSE, Some(200))
      [] o = "task_flush_failed" ->
           TaskOutcome(Some(AppError_invalid_request("tool_use arguments invalid json")),
                       TRUE, Some(200))
      [] o = "task_read_error" ->
           TaskOutcome(Some(AppError_api_error("stream error")), TRUE, Some(200))
      [] o = "task_invalid_chunk" ->
           TaskOutcome(Some(AppError_api_error("invalid stream chunk")), TRUE, None)
      [] o = "task_chunk_failed" ->
           TaskOutcome(Some(AppError_invalid_request("tool_use arguments invalid json")),
                       TRUE, Some(200))
      [] o = "task_upstream_end" ->
           TaskOutcome(None, FALSE, None)

DrainTaskOutcomes ==
    { "task_done", "task_flush_failed", "task_read_error", "task_invalid_chunk",
      "task_chunk_failed", "task_upstream_end" }

\* the ways the relay task of stream_anthropic_passthrough ends
RelayTaskOutcome(o) ==
    CASE o = "task_upstream_end" ->
           TaskOutcome(None, FALSE, Some(200))
      [] o = "task_read_error" ->
           TaskOutcome(Some(AppError_api_error("stream error")), TRUE, Some(200))
      [] o = "task_send_failed" ->
           TaskOutcome(None, FALSE, Some(200))

RelayTaskOutcomes == { "task_upstream_end", "task_read_error", "task_send_failed" }

\* the handler or task runs exit path `path` up to its audit push or its end
Leave(r, path, x) ==
    /\ exit_path' = [exit_path EXCEPT ![r] =
                        [path |-> path, err |-> x.err, audit |-> x.audit]]
    /\ errors_added' = [errors_added EXCEPT ![r] =
                           IF x.counted THEN Append(@, x.err[1].error_type) ELSE @]
    /\ req_pc' = [req_pc EXCEPT ![r] =
                     IF audit_enabled /\ x.audit # None THEN "push" ELSE "drop_guard"]

TranslateHandler(r, o, up) ==
    /\ forward_mode = "translate"
    /\ req_pc[r] = "admitted"
    /\ Leave(r, o, TranslateOutcome(o, up))
    /\ response' = [response EXCEPT ![r] = TranslateOutcome(o, up).resp]
    /\ UNCHANGED <<forward_mode, audit_enabled, permits, holders, inflight_count, guards,
                   audit_pushed, audit_room, drainVars, relayVars, auditVars, idVars, extraVars>>

PassthroughHandler(r, o, up, body) ==
    /\ forward_mode = "passthrough"
    /\ req_pc[r] = "admitted"
    /\ Leave(r, o, PassthroughOutcome(o, up, body))
    /\ response' = [response EXCEPT ![r] = PassthroughOutcome(o, up, body).resp]
    /\ upstream' = [upstream EXCEPT ![r] = UpstreamResponse(o, up, body)]
    /\ UNCHANGED <<forward_mode, audit_enabled, permits, holders, inflight_count, guards,
                   audit_pushed, audit_room, drainVars, relayVars, auditVars, idVars, otherVars>>

\* the upstream answered with success: the guard moves into the spawned task
\* and the handler returns the streaming response
StreamSpawn(r) ==
    /\ req_pc[r] = "admitted"
    /\ req_pc' = [req_pc EXCEPT ![r] = "task"]
    /\ response' = [response EXCEPT ![r] = OkResponse(200)]
    /\ UNCHANGED <<forward_mode, audit_enabled, permits, holders, inflight_count, guards,
                   exit_path, errors_added, audit_pushed, audit_room,
                   drainVars, relayVars, auditVars, idVars, extraVars>>

\* a drain task that ends without dropping the guard it was given
DrainTaskEnd_leak(r, o) ==
    /\ forward_mode = "translate"
    /\ req_pc[r] = "task"
    /\ exit_path' = [exit_path EXCEPT ![r] =
                        [path |-> o, err |-> DrainTaskOutcome(o).err,
                         audit |-> DrainTaskOutcome(o).audit]]
    /\ req_pc' = [req_pc EXCEPT ![r] = "done"]
    /\ UNCHANGED <<forward_mode, audit_enabled, permits, holders, inflight_count, guards,
                   errors_added, audit_pushed, response, audit_room,
                   drainVars, relayVars, auditVars, idVars, extraVars>>

DrainTaskEnd(r, o) ==
    /\ forward_mode = "translate"
    /\ req_pc[r] = "task"
    /\ Leave(r, o, DrainTaskOutcome(o))
    /\ UNCHANGED <<forward_mode, audit_enabled, permits, holders, inflight_count, guards,
                   audit_pushed, response, audit_room, drainVars, relayVars,
                   auditVars, idVars, extraVars>>

RelayTaskEnd(r, o) ==
    /\ forward_mode = "passthrough"
    /\ req_pc[r] = "task"
    /\ Leave(r, o, RelayTaskOutcome(o))
    /\ UNCHANGED <<forward_mode, audit_enabled, permits, holders, inflight_count, guards,
                   audit_pushed, response, audit_room, drainVars, relayVars,
                   auditVars, idVars, extraVars>>

\* logger.push(record).await completes: the queue had room for the record
AuditPush(r) ==
    /\ req_pc[r] = "push"
    /\ audit_room
    /\ audit_pushed' = [audit_pushed EXCEPT ![r] = Append(@, exit_path[r].audit[1])]
    /\ audit_room' \in BOOLEAN
    /\ req_pc' = [req_pc EXCEPT ![r] = "drop_guard"]
    /\ UNCHANGED <<forward_mode, audit_enabled, permits, holders, inflight_count, guards,
                   exit_path, errors_added, response, drainVars, relayVars,
                   auditVars, idVars, extraVars>>

\* the audit worker takes a record off a full queue
AuditWorkerRecv ==
    /\ audit_enabled
    /\ ~audit_room
    /\ audit_room' = TRUE
    /\ UNCHANGED <<forward_mode, audit_enabled, permits, holders, inflight_count, guards,
                   req_pc, exit_path, errors_added, audit_pushed, response,
                   drainVars, relayVars, auditVars, idVars, extraVars>>

\* a drop of the guard that leaves the counter alone
Drop_InflightGuard_keep_count(r) ==
    /\ req_pc[r] = "drop_guard"
    /\ guards' = guards \ {r}
    /\ req_pc' = [req_pc EXCEPT ![r] = "drop_permit"]
    /\ UNCHANGED <<forward_mode, audit_enabled, permits, holders, inflight_count,
                   exit_path, errors_added, audit_pushed, response, audit_room,
                   drainVars, relayVars, auditVars, idVars, extraVars>>

\* Drop for InflightGuard: the handler returns or the spawned task ends
Drop_InflightGuard(r) ==
    /\ req_pc[r] = "drop_guard"
    /\ inflight_count' = inflight_count - 1
    /\ guards' = guards \ {r}
    /\ req_pc' = [req_pc EXCEPT ![r] = "drop_permit"]
    /\ UNCHANGED <<forward_mode, audit_enabled, permits, holders, exit_path, errors_added,
                   audit_pushed, response, audit_room, drainVars, relayVars,
                   auditVars, idVars, extraVars>>

\* the guard's field _permit is dropped: the slot returns to the semaphore
Drop_permit(r) ==
    /\ req_pc[r] = "drop_permit"
    /\ permits' = permits + 1
    /\ holders' = holders \ {r}
    /\ req_pc' = [req_pc EXCEPT ![r] = "done"]
    /\ UNCHANGED <<forward_mode, audit_enabled, inflight_count, guards, exit_path,
                   errors_added, audit_pushed, response, audit_room,
                   drainVars, relayVars, auditVars, idVars, extraVars>>

----------------------------------------------------------------------------
(* AuditLogger::push against the bounded queue (src/src/audit_log.rs)      *)

\* capacity of the channel between push and the audit worker
audit_capacity == 256

\* tasks that push audit records
Pushers == { 1, 2 }

\* a caller reaches logger.push(record).await: sender.send(record) puts the
\* record in the queue if it has room, and otherwise waits for room
Push(p) ==
    /\ push_pc[p] = "idle"
    /\ IF audit_len < audit_capacity
       THEN /\ audit_len' = audit_len + 1
            /\ UNCHANGED push_pc
       ELSE /\ push_pc' = [push_pc EXCEPT ![p] = "waiting"]
            /\ UNCHANGED audit_len
    /\ UNCHANGED <<drainVars, relayVars, gateVars, idVars, extraVars>>

\* room appeared: the waiting send completes and push returns
PushResume(p) ==
    /\ push_pc[p] = "waiting"
    /\ audit_len < audit_capacity
    /\ audit_len' = audit_len + 1
    /\ push_pc' = [push_pc EXCEPT ![p] = "idle"]
    /\ UNCHANGED <<drainVars, relayVars, gateVars, idVars, extraVars>>

\* the worker's rx.recv() takes the oldest record
WorkerRecv ==
    /\ audit_len > 0
    /\ audit_len' = audit_len - 1
    /\ UNCHANGED <<push_pc, drainVars, relayVars, gateVars, idVars, extraVars>>

----------------------------------------------------------------------------
(* post_messages: the model name (extract_model, allowlist, blocklist,     *)
(* model_map)                                                              *)

ModelNames == { "a", "b" }
MappedNames == { "a", "b", "m" }

\* the "model" member of the body: absent (or not a string), "", or a name
PayloadModels == { None, Some("") } \cup { Some(n) : n \in ModelNames }

\* every HashMap<String, String> over the names
ModelMaps == UNION { [D -> MappedNames] : D \in SUBSET ModelNames }

NoRoute == [err |-> None, upstream_model |-> None]

\* extract_model: the name, or the error of a missing or empty one
extract_model(payload) ==
    IF payload = None \/ payload = Some("")
    THEN [model |-> None, err |-> Some(AppError_invalid_request("model is required"))]
    ELSE [model |-> payload, err |-> None]

\* the two checks in the opposite order
model_list_check_blocklist_first(model) ==
    IF model \in blocklist
    THEN Some(AppError_invalid_request("model is blocked"))
    ELSE IF allowlist # {} /\ model \notin allowlist
    THEN Some(AppError_invalid_request("model not in allowlist"))
    ELSE None

\* the allowlist check, then the blocklist check, on the extracted name
model_list_check(model) ==
    IF allowlist # {} /\ model \notin allowlist
    THEN Some(AppError_invalid_request("model not in allowlist"))
    ELSE IF model \in blocklist
    THEN Some(AppError_invalid_request("model is blocked"))
    ELSE None

\* the substitution applied in either mode
upstream_model_always_mapped(model) ==
    IF model \in DOMAIN model_map THEN model_map[model] ELSE model

\* the model the upstream request carries: pass-through sends the client's
\* payload itself; translate mode replaces anthropic_req.model by the
\* model_map entry when there is one
upstream_model(model) ==
    IF forward_mode = "translate" /\ model \in DOMAIN model_map
    THEN model_map[model]
    ELSE model

\* post_messages up to the request it builds for the upstream
Route ==
    /\ route_pc = "start"
    /\ route_pc' = "done"
    /\ LET x == extract_model(payload_model) IN
       IF x.err # None
       THEN route_result' = [err |-> x.err, upstream_model |-> None]
       ELSE LET model == x.model[1]
                rejected == model_list_check(model) IN
            IF rejected # None
            THEN route_result' = [err |-> rejected, upstream_model |-> None]
            ELSE route_result' = [err |-> None, upstream_model |-> Some(upstream_model(model))]
    /\ UNCHANGED <<allowlist, blocklist, model_map, payload_model>>
    /\ UNCHANGED <<serverVars, translateVars, rotateVars, lateVars>>

----------------------------------------------------------------------------
(* anthropic_to_openai (src/src/translate.rs). Message texts, system texts *)
(* and serialised JSON are sequences of characters; ids and names are      *)
(* atoms. Of the request only the fields below are modelled: temperature,  *)
(* top_p, tools, tool_choice and output_format are converted on their own  *)
(* and do not touch the messages.                                          *)

\* longest block list of a message, longest message list of a request
MaxBlocks == 3
MaxMessages == 2

unwrap_or_default(opt) == IF opt = None THEN <<>> ELSE opt[1]

\* serde_json::Value: a JSON string, or the empty object
JsonString(s) == [json |-> "string", s |-> s]
JsonObject == [json |-> "object", s |-> <<>>]

\* serde_json::to_string of a Value
serde_json_to_string(v) ==
    IF v.json = "string" THEN <<"\"">> \o v.s \o <<"\"">> ELSE <<"{", "}">>

\* AnthropicContentBlock
TextBlock(text) == [type |-> "text", text |-> text]
ImageBlock(media_type, data) == [type |-> "image", media_type |-> media_type, data |-> data]
DocumentBlock == [type |-> "document"]
ToolResultBlock(tool_use_id, content) ==
    [type |-> "tool_result", tool_use_id |-> tool_use_id, content |-> content]
ToolUseBlock(id, name, input) == [type |-> "tool_use", id |-> id, name |-> name, input |-> input]
ThinkingBlock(thinking) == [type |-> "thinking", thinking |-> thinking]
RedactedThinkingBlock == [type |-> "redacted_thinking"]

\* AnthropicContent
ContentText(s) == [kind |-> "text", text |-> s]
ContentBlocks(blocks) == [kind |-> "blocks", blocks |-> blocks]

\* AnthropicSystem and AnthropicSystemBlock
SystemText(s) == [kind |-> "text", text |-> s]
SystemBlocks(blocks) == [kind |-> "blocks", blocks |-> blocks]
SystemBlock(block_type, text) == [block_type |-> block_type, text |-> text]

\* OpenAIMessageContent and OpenAIContentPart
OpenAIText(s) == [kind |-> "text", text |-> s]
OpenAIParts(parts) == [kind |-> "parts", parts |-> parts]
TextPart(text) == [type |-> "text", text |-> text]
ImageUrlPart(url) == [type |-> "image_url", url |-> url]

OpenAIMessage(role, content, calls, tool_call_id, reasoning_content) ==
    [role |-> role, content |-> content, tool_calls |-> calls,
     tool_call_id |-> tool_call_id, reasoning_content |-> reasoning_content]

OpenAIToolCall(id, name, arguments) ==
    [id |-> id, call_type |-> "function",
     function |-> [name |-> name, arguments |-> arguments]]

\* Result<T, TranslateError>
TOk(v) == [ok |-> TRUE, value |-> v, err |-> None]
TErr(e) == [ok |-> FALSE, value |-> None, err |-> Some(e)]

\* config.thinking_map of the modelled gateway: threshold -> effort
thinking_map == (2 :> "low") @@ (4 :> "high")

\* map_reasoning_effort: the effort of the largest threshold the budget
\* reaches, if the directive has a budget and it reaches one
map_reasoning_effort(thinking) ==
    IF thinking.budget_tokens = None THEN None
    ELSE LET budget == thinking.budget_tokens[1]
             reached == { t \in DOMAIN thinking_map : budget >= t } IN
         IF reached = {} THEN None
         ELSE Some(thinking_map[CHOOSE t \in reached : \A u \in reached : u <= t])

\* Config::document_policy
document_policy(config) ==
    IF config.document_policy \in { "reject", "strip", "text_only" }
    THEN TOk(config.document_policy)
    ELSE TErr(TranslateError_invalid_request("DOCUMENT_POLICY invalid"))

RECURSIVE extract_system_blocks(_, _)
extract_system_blocks(blocks, out) ==
    IF blocks = <<>> THEN TOk(out)
    ELSE IF Head(blocks).block_type # "text"
    THEN TErr(TranslateError_invalid_request("system block type not supported"))
    ELSE extract_system_blocks(Tail(blocks), out \o unwrap_or_default(Head(blocks).text))

\* extract_system_text: the string itself, or the texts of the blocks joined
extract_system_text(system) ==
    IF system.kind = "text" THEN TOk(system.text)
    ELSE extract_system_blocks(system.blocks, <<>>)

\* the system message anthropic_to_openai pushes: none for an empty text
system_message(system_text) ==
    IF system_text # <<>>
    THEN << OpenAIMessage("system", Some(OpenAIText(system_text)), None, None, None) >>
    ELSE <<>>

\* the state of convert_message's loop over the blocks
ConvertState(messages, parts, thinking_text) ==
    [messages |-> messages, parts |-> parts, thinking_text |-> thinking_text, err |-> None]

ConvertFail(st, message) ==
    [st EXCEPT !.err = Some(TranslateError_invalid_request(message))]

\* the flush_parts closure
flush_parts(st, role, include_reasoning) ==
    IF st.parts = <<>> THEN st
    ELSE LET content == IF Len(st.parts) = 1 /\ st.parts[1].type = "text"
                        THEN OpenAIText(st.parts[1].text)
                        ELSE OpenAIParts(st.parts)
             reasoning_content ==
                 IF include_reasoning /\ role = "assistant"
                 THEN Some(unwrap_or_default(st.thinking_text))
                 ELSE None IN
         [st EXCEPT !.messages = Append(@, OpenAIMessage(role, Some(content), None, None,
                                                          reasoning_content)),
                    !.parts = <<>>]

convert_image(st, block, config) ==
    IF ~config.allow_images THEN ConvertFail(st, "image content not allowed")
    ELSE IF block.media_type = None THEN ConvertFail(st, "image media_type missing")
    ELSE IF block.data = None THEN ConvertFail(st, "image data missing")
    ELSE LET url == <<"data:">> \o block.media_type[1] \o <<";base64,">> \o block.data[1] IN
         [st EXCEPT !.parts = Append(@, ImageUrlPart(url))]

convert_document(st, policy) ==
    CASE policy = "reject" -> ConvertFail(st, "document content not supported")
      [] policy = "strip" -> st
      [] policy = "text_only" ->
           [st EXCEPT !.parts = Append(@, TextPart(<<"[document omitted]">>))]

\* a tool_result turned into a message of the enclosing role
convert_tool_result_in_role(st, block, role, include_reasoning) ==
    LET flushed == flush_parts(st, role, include_reasoning)
        text == IF block.content.json = "string" THEN block.content.s
                ELSE serde_json_to_string(block.content) IN
    [flushed EXCEPT !.messages =
        Append(@, OpenAIMessage(role, Some(OpenAIText(text)), None, None, None))]

\* the ToolResult arm
convert_tool_result(st, block, role, include_reasoning) ==
    LET flushed == flush_parts(st, role, include_reasoning)
        text == IF block.content.json = "string" THEN block.content.s
                ELSE serde_json_to_string(block.content) IN
    [flushed EXCEPT !.messages =
        Append(@, OpenAIMessage("tool", Some(OpenAIText(text)), None,
                                Some(block.tool_use_id), None))]

\* a ToolUse arm that starts a new message for every block
convert_tool_use_always_new(st, block, role, include_reasoning) ==
    LET flushed == flush_parts(st, role, include_reasoning) IN
    IF role # "assistant" THEN ConvertFail(flushed, "tool_use must be in assistant role")
    ELSE LET call == OpenAIToolCall(block.id, block.name, serde_json_to_string(block.input))
             reasoning_content == Some(unwrap_or_default(flushed.thinking_text)) IN
         [flushed EXCEPT !.messages =
             Append(@, OpenAIMessage("assistant", None, Some(<<call>>), None,
                                     reasoning_content))]

\* the ToolUse arm
convert_tool_use(st, block, role, include_reasoning) ==
    LET flushed == flush_parts(st, role, include_reasoning) IN
    IF role # "assistant" THEN ConvertFail(flushed, "tool_use must be in assistant role")
    ELSE LET call == OpenAIToolCall(block.id, block.name, serde_json_to_string(block.input))
             reasoning_content == Some(unwrap_or_default(flushed.thinking_text))
             n == Len(flushed.messages)
             appends == /\ n > 0
                        /\ flushed.messages[n].role = "assistant"
                        /\ flushed.messages[n].tool_calls # None
                        /\ flushed.messages[n].content = None IN
         IF appends
         THEN [flushed EXCEPT !.messages[n] =
                  [@ EXCEPT !.tool_calls = Some(Append(@[1], call)),
                            !.reasoning_content =
                                IF @ = None THEN reasoning_content ELSE @]]
         ELSE [flushed EXCEPT !.messages =
                  Append(@, OpenAIMessage("assistant", None, Some(<<call>>), None,
                                          reasoning_content))]

\* one iteration of the loop over the blocks
convert_block(st, block, role, config, policy, include_reasoning) ==
    CASE block.type = "text" -> [st EXCEPT !.parts = Append(@, TextPart(block.text))]
      [] block.type = "image" -> convert_image(st, block, config)
      [] block.type = "document" -> convert_document(st, policy)
      [] block.type = "tool_result" -> convert_tool_result(st, block, role, include_reasoning)
      [] block.type = "tool_use" -> convert_tool_use(st, block, role, include_reasoning)
      [] block.type = "thinking" -> [st EXCEPT !.thinking_text = Some(block.thinking)]
      [] block.type = "redacted_thinking" -> [st EXCEPT !.thinking_text = Some(<<>>)]

RECURSIVE convert_blocks(_, _, _, _, _, _)
convert_blocks(st, blocks, role, config, policy, include_reasoning) ==
    IF blocks = <<>> \/ st.err # None THEN st
    ELSE convert_blocks(convert_block(st, Head(blocks), role, config, policy,
                                      include_reasoning),
                        Tail(blocks), role, config, policy, include_reasoning)

convert_message(role, content, config, include_reasoning) ==
    IF content.kind = "text"
    THEN TOk(<< OpenAIMessage(role, Some(OpenAIText(content.text)), None, None,
                              IF include_reasoning /\ role = "assistant"
                              THEN Some(<<>>) ELSE None) >>)
    ELSE LET policy == document_policy(config) IN
         IF ~policy.ok THEN policy
         ELSE LET st == convert_blocks(ConvertState(<<>>, <<>>, None), content.blocks,
                                       role, config, policy.value, include_reasoning) IN
              IF st.err # None THEN TErr(st.err[1])
              ELSE TOk(flush_parts(st, role, include_reasoning).messages)

RECURSIVE convert_messages(_, _, _, _)
convert_messages(msgs, out, config, include_reasoning) ==
    IF msgs = <<>> THEN TOk(out)
    ELSE LET msg == Head(msgs) IN
         IF msg.role # "user" /\ msg.role # "assistant"
         THEN TErr(TranslateError_invalid_request("messages: Unexpected role"))
         ELSE LET converted == convert_message(msg.role, msg.content, config,
                                               include_reasoning) IN
              IF ~converted.ok THEN converted
              ELSE convert_messages(Tail(msgs), out \o converted.value, config,
                                    include_reasoning)

anthropic_to_openai(req, config) ==
    LET reasoning_effort == IF req.thinking = None THEN None
                            ELSE map_reasoning_effort(req.thinking[1])
        include_reasoning == reasoning_effort # None
        system_text == IF req.system = None THEN TOk(<<>>)
                       ELSE extract_system_text(req.system[1]) IN
    IF ~system_text.ok THEN system_text
    ELSE LET pushed == IF req.system = None THEN <<>>
                       ELSE system_message(system_text.value)
             messages == convert_messages(req.messages, pushed, config,
                                          include_reasoning) IN
         IF ~messages.ok THEN messages
         ELSE TOk([model |-> req.model,
                   messages |-> messages.value,
                   max_completion_tokens |-> req.max_tokens,
                   stop |-> req.stop_sequences,
                   stream |-> req.stream,
                   reasoning_effort |-> reasoning_effort,
                   stream_options |-> IF req.stream = None THEN None
                                      ELSE Some([include_usage |-> req.stream[1]])])

----------------------------------------------------------------------------
(* openai_to_anthropic (src/src/translate.rs)                              *)

\* most tool calls in a response
MaxToolCalls == 2

\* a reasoning_content object that deserialises as OpenAIReasoningContent
ReasoningObject(thinking, signature) ==
    [json |-> "object", s |-> <<>>, thinking |-> thinking, signature |-> signature]
JsonNull == [json |-> "null", s |-> <<>>]

\* serde_json::from_value::<OpenAIReasoningContent> succeeds
is_reasoning_content(v) == v.json = "object" /\ "thinking" \in DOMAIN v

\* the thinking block of the response, if reasoning_content yields one
reasoning_blocks(reasoning_content) ==
    IF reasoning_content = None THEN <<>>
    ELSE LET reasoning == reasoning_content[1] IN
         IF reasoning.json = "object"
         THEN IF is_reasoning_content(reasoning)
              THEN << [type |-> "thinking", thinking |-> reasoning.thinking,
                       signature |-> reasoning.signature] >>
              ELSE <<>>
         ELSE IF reasoning.json = "string"
         THEN << [type |-> "thinking", thinking |-> reasoning.s, signature |-> "auto"] >>
         ELSE <<>>

\* the loop over tool_calls: one tool_use block per call, or the error of
\* the first call whose arguments do not parse
RECURSIVE tool_use_blocks(_, _)
tool_use_blocks(calls, out) ==
    IF calls = <<>> THEN TOk(out)
    ELSE LET call == Head(calls) IN
         IF ~IsJson(call.function.arguments)
         THEN TErr(TranslateError_api_error("invalid tool call arguments"))
         ELSE tool_use_blocks(Tail(calls),
                              Append(out, ToolUseBlock(call.id, call.function.name,
                                                       JsonObject)))

text_blocks(content) ==
    IF content = None THEN <<>> ELSE << TextBlock(content[1]) >>

\* content blocks with the text block in front
content_blocks_text_first(message, tool_blocks) ==
    text_blocks(message.content) \o reasoning_blocks(message.reasoning_content) \o tool_blocks

\* content_blocks in the order the pushes are made
content_blocks(message, tool_blocks) ==
    reasoning_blocks(message.reasoning_content) \o tool_blocks \o text_blocks(message.content)

\* a mapping that reports an absent finish_reason as a stop sequence
stop_reason_absent_as_sequence(finish_reason) ==
    CASE finish_reason = None -> "stop_sequence"
      [] finish_reason = Some("stop") -> "end_turn"
      [] finish_reason = Some("length") -> "max_tokens"
      [] finish_reason = Some("tool_calls") -> "tool_use"
      [] OTHER -> "end_turn"

\* the match on choice.finish_reason.as_deref()
stop_reason(finish_reason) ==
    CASE finish_reason = Some("stop") \/ finish_reason = None -> "end_turn"
      [] finish_reason = Some("length") -> "max_tokens"
      [] finish_reason = Some("tool_calls") -> "tool_use"
      [] OTHER -> "end_turn"

\* a usage that swaps the two counts
anthropic_usage_swapped(usage) ==
    IF usage # None
    THEN [input_tokens |-> usage[1].completion_tokens,
          output_tokens |-> usage[1].prompt_tokens,
          cache_creation_input_tokens |-> 0, cache_read_input_tokens |-> 0]
    ELSE [input_tokens |-> 0, output_tokens |-> 0,
          cache_creation_input_tokens |-> 0, cache_read_input_tokens |-> 0]

\* the match on resp.usage
anthropic_usage(usage) ==
    IF usage # None
    THEN [input_tokens |-> usage[1].prompt_tokens,
          output_tokens |-> usage[1].completion_tokens,
          cache_creation_input_tokens |-> 0, cache_read_input_tokens |-> 0]
    ELSE [input_tokens |-> 0, output_tokens |-> 0,
          cache_creation_input_tokens |-> 0, cache_read_input_tokens |-> 0]

openai_to_anthropic(resp) ==
    IF resp.choices = <<>> THEN TErr(TranslateError_api_error("missing choices in response"))
    ELSE LET choice == Head(resp.choices)
             tool_blocks == IF choice.message.tool_calls = None THEN TOk(<<>>)
                            ELSE tool_use_blocks(choice.message.tool_calls[1], <<>>) IN
         IF ~tool_blocks.ok THEN tool_blocks
         ELSE LET blocks == content_blocks(choice.message, tool_blocks.value) IN
              IF blocks = <<>>
              THEN TErr(TranslateError_api_error("missing assistant content"))
              ELSE TOk([id |-> resp.id,
                        response_type |-> "message",
                        role |-> "assistant",
                        model |-> resp.model,
                        content |-> blocks,
                        stop_reason |-> stop_reason(choice.finish_reason),
                        stop_sequence |-> None,
                        usage |-> anthropic_usage(resp.usage)])

----------------------------------------------------------------------------
(* Inputs of the two translations                                          *)

SeqsUpTo(S, n) == UNION { [1..k -> S] : k \in 0..n }

\* blocks that exercise the media policies
MediaBlocks ==
    { TextBlock(<<"h">>),
      ImageBlock(Some(<<"p">>), Some(<<"d">>)),
      ImageBlock(None, Some(<<"d">>)),
      ImageBlock(Some(<<"p">>), None),
      DocumentBlock,
      ToolUseBlock("u1", "f", JsonObject) }

\* blocks that exercise tools and thinking
ToolBlocks ==
    { TextBlock(<<"h">>),
      ToolResultBlock("u1", JsonString(<<"r">>)),
      ToolResultBlock("u2", JsonObject),
      ToolUseBlock("u1", "f", JsonObject),
      ToolUseBlock("u2", "g", JsonObject),
      ThinkingBlock(<<"t">>),
      RedactedThinkingBlock }

\* the thinking directive: absent, without a budget, with a budget below
\* every threshold, with a budget that reaches every threshold
Thinkings ==
    { None, Some([budget_tokens |-> None]), Some([budget_tokens |-> Some(1)]),
      Some([budget_tokens |-> Some(4)]) }

TranslateConfigs ==
    [allow_images : BOOLEAN, document_policy : { "reject", "strip", "text_only", "keep" }]

DefaultConfig == [allow_images |-> TRUE, document_policy |-> "reject"]

AnthropicMessage(role, content) == [role |-> role, content |-> content]

\* messages with string content; "tool" is not a role of the Anthropic dialect
TextMessages ==
    { AnthropicMessage("user", ContentText(<<"h">>)),
      AnthropicMessage("assistant", ContentText(<<"i">>)),
      AnthropicMessage("tool", ContentText(<<"h">>)) }

Systems ==
    { None,
      Some(SystemText(<<>>)),
      Some(SystemText(<<"s">>)),
      Some(SystemBlocks(<< SystemBlock("text", Some(<<"a">>)),
                           SystemBlock("text", Some(<<"b">>)) >>)),
      Some(SystemBlocks(<< SystemBlock("text", None) >>)),
      Some(SystemBlocks(<< SystemBlock("text", Some(<<"a">>)),
                           SystemBlock("image", None) >>)) }

\* requests of one message with block content
BlockRequests(blocks, thinkings) ==
    { [model |-> "a", max_tokens |-> 1,
       messages |-> << AnthropicMessage(role, ContentBlocks(bs)) >>,
       system |-> None, stop_sequences |-> None, stream |-> None, thinking |-> th] :
      role \in { "user", "assistant" }, bs \in SeqsUpTo(blocks, MaxBlocks), th \in thinkings }

\* requests whose messages have string content
TextRequests ==
    { [model |-> x.model, max_tokens |-> x.max_tokens, messages |-> msgs,
       system |-> system, stop_sequences |-> x.stop_sequences, stream |-> x.stream,
       thinking |-> th] :
      x \in [model : { "a", "b" }, max_tokens : { 1, 64 },
             stop_sequences : { None, Some(<< <<"S">> >>) },
             stream : { None, Some(TRUE), Some(FALSE) }],
      msgs \in SeqsUpTo(TextMessages, MaxMessages) \ { <<>> },
      system \in Systems,
      th \in { None, Some([budget_tokens |-> Some(4)]) } }

ResponseToolCalls ==
    { OpenAIToolCall("c1", "f", <<"{", "}">>), OpenAIToolCall("c2", "g", <<"{">>),
      OpenAIToolCall("c3", "g", <<"{", "}">>) }

ChoiceMessages ==
    [role : { "assistant" },
     content : { None, Some(<<>>), Some(<<"h">>) },
     tool_calls : { None } \cup { Some(c) : c \in SeqsUpTo(ResponseToolCalls, MaxToolCalls) },
     reasoning_content : { None, Some(JsonString(<<"t">>)), Some(JsonObject), Some(JsonNull),
                           Some(ReasoningObject(<<"t">>, "sig")) }]

ChoiceFinishReasons ==
    { None, Some("stop"), Some("length"), Some("tool_calls"), Some("content_filter"),
      Some("") }

Choices == [message : ChoiceMessages, finish_reason : ChoiceFinishReasons]

\* a second choice, which openai_to_anthropic never looks at
OtherChoice ==
    [message |-> [role |-> "assistant", content |-> Some(<<"o">>), tool_calls |-> None,
                  reasoning_content |-> None],
     finish_reason |-> Some("length")]

OpenAIResponses ==
    [id : { "id1" }, model : { "a", "b" },
     choices : { <<>> } \cup { <<c>> : c \in Choices } \cup { <<c, OtherChoice>> : c \in Choices },
     usage : { None, Some([prompt_tokens |-> 3, completion_tokens |-> 5,
                           total_tokens |-> 8]) }]

\* anthropic_to_openai on the request
AnthropicToOpenAI ==
    /\ tr_pc = "request"
    /\ tr_pc' = "request_done"
    /\ openai_req' = anthropic_to_openai(anthropic_req, tr_config)
    /\ UNCHANGED <<tr_config, anthropic_req, openai_resp, anthropic_resp>>
    /\ UNCHANGED <<serverVars, routeVars, rotateVars, lateVars>>

\* openai_to_anthropic on the response
OpenAIToAnthropic ==
    /\ tr_pc = "response"
    /\ tr_pc' = "response_done"
    /\ anthropic_resp' = openai_to_anthropic(openai_resp)
    /\ UNCHANGED <<tr_config, anthropic_req, openai_req, openai_resp>>
    /\ UNCHANGED <<serverVars, routeVars, rotateVars, lateVars>>

----------------------------------------------------------------------------
(* The audit worker: writing and rotating the log (src/src/audit_log.rs).  *)
(* A path is a sequence of name parts; a file is the sequence of the       *)
(* chunks written to it, a record's line or a newline. A failed write_all  *)
(* is taken to have written nothing. serde_json::to_string of an           *)
(* AuditLogRecord has no failing case and is not given one.                *)

\* config.audit_log.max_file_bytes of the modelled gateway
max_file_bytes == 4
\* records the worker takes off the queue in one run, and the clock's range
MaxRecords == 3
MaxClock == 1

\* serialised lengths of the records
RecordLens == { 1, 3 }

BasePaths == { <<"audit", ".jsonl">>, <<"audit", ".log">> }

\* build_log_path with now_ms() = ts
build_log_path(base, ts) ==
    IF base[Len(base)] = ".jsonl"
    THEN SubSeq(base, 1, Len(base) - 1) \o <<".", ts, ".jsonl">>
    ELSE base \o <<".", ts>>

Line(id, len) == [id |-> id, len |-> len]
Newline == [id |-> 0, len |-> 1]

RECURSIVE FileLen(_)
\* the number of bytes of a file
FileLen(chunks) == IF chunks = <<>> THEN 0 ELSE Head(chunks).len + FileLen(Tail(chunks))

\* open_log_file: create the file if it is not there, open it for appending
open_log_file(files, path) ==
    IF path \in DOMAIN files THEN files ELSE files @@ (path :> <<>>)

\* file.write_all on the handle opened at path
write_all(files, path, chunk) == [files EXCEPT ![path] = Append(@, chunk)]

\* a rotation that also happens when the record exactly fills the file
rotation_due_at_limit(size, len) == size + len + 1 >= max_file_bytes

\* projected > max_file_bytes
rotation_due(size, len) == size + len + 1 > max_file_bytes

NoIo == [id |-> 0, len |-> 0, rotate |-> FALSE, open_ok |-> TRUE, write_ok |-> TRUE,
         newline_ok |-> TRUE]

\* the worker task starts: it opens the first file, or gives up
WorkerStart(open_ok) ==
    /\ worker_pc = "new"
    /\ current_path' = build_log_path(base_path, clock)
    /\ IF open_ok
       THEN /\ log_files' = open_log_file(log_files, current_path')
            /\ file' = Some(current_path')
            /\ current_size' = FileLen(log_files'[current_path'])
            /\ worker_pc' = "running"
       ELSE /\ worker_pc' = "stopped"
            /\ UNCHANGED <<log_files, file, current_size>>
    /\ UNCHANGED <<clock, base_path, dequeued, last_io>>
    /\ UNCHANGED <<serverVars, routeVars, translateVars, lateVars>>

\* one turn of the worker's loop: a record of serialised length len is
\* taken off the queue, the file is rotated if the record does not fit,
\* the line and the newline are written
WorkerRecord(len, open_ok, write_ok, newline_ok) ==
    /\ worker_pc = "running"
    /\ dequeued < MaxRecords
    /\ dequeued' = dequeued + 1
    /\ LET id == dequeued + 1
           rotate == rotation_due(current_size, len)
           opened == rotate /\ open_ok
           path == IF rotate THEN build_log_path(base_path, clock) ELSE current_path
           handle == IF opened THEN path ELSE file[1]
           files == IF opened THEN open_log_file(log_files, path) ELSE log_files
           size == IF opened THEN 0 ELSE current_size
           written == write_all(files, handle, Line(id, len)) IN
       /\ current_path' = path
       /\ file' = Some(handle)
       /\ IF write_ok
          THEN /\ log_files' = IF newline_ok THEN write_all(written, handle, Newline)
                               ELSE written
               /\ current_size' = size + len + 1
          ELSE /\ log_files' = files
               /\ current_size' = size
       /\ last_io' = [id |-> id, len |-> len, rotate |-> rotate,
                      open_ok |-> (rotate => open_ok), write_ok |-> write_ok,
                      newline_ok |-> (write_ok => newline_ok)]
    /\ UNCHANGED <<clock, base_path, worker_pc>>
    /\ UNCHANGED <<serverVars, routeVars, translateVars, lateVars>>

\* a millisecond passes
Tick ==
    /\ worker_pc \in { "new", "running" }
    /\ clock < MaxClock
    /\ clock' = clock + 1
    /\ UNCHANGED <<base_path, worker_pc, current_path, file, current_size, log_files,
                   dequeued, last_io>>
    /\ UNCHANGED <<serverVars, routeVars, translateVars, lateVars>>

----------------------------------------------------------------------------
(* Header maps of an audit record (headers_to_map, build_audit_context,    *)
(* AuditContext::finish). A HeaderMap is the sequence of the (name, value) *)
(* pairs its iter() yields, a name once for each of its values; names are  *)
(* lower case, as HeaderName stores them. A value is its bytes together    *)
(* with whether all of them are visible ASCII, which HeaderValue::to_str   *)
(* tests. A HashMap<String, String> is a function on its keys.             *)

MaxHeaders == 2

HeaderNames == { "authorization", "x-api-key" }

HeaderValue(bytes, visible) == [bytes |-> bytes, visible |-> visible]

HeaderValues ==
    { HeaderValue("secret", TRUE), HeaderValue("v", TRUE), HeaderValue("bytes", FALSE) }

Header(name, value) == [name |-> name, value |-> value]

HeaderMaps ==
    SeqsUpTo({ Header(n, v) : n \in HeaderNames, v \in HeaderValues }, MaxHeaders)

\* HeaderValue::to_str
to_str(value) == IF value.visible THEN Some(value.bytes) ELSE None

unwrap_or(opt, default) == IF opt = None THEN default ELSE opt[1]

\* HashMap::insert
insert(map, key, value) ==
    [k \in DOMAIN map \cup { key } |-> IF k = key THEN value ELSE map[k]]

\* name.as_str().eq_ignore_ascii_case("authorization"), on a lower-case name
is_authorization(name) == name = "authorization"

redacted_value_kept(value) == value

\* what is stored for an authorization header whose value reads `value`
redacted_value(value) == "[redacted]"

RECURSIVE headers_to_map_loop(_, _)
headers_to_map_loop(headers, out) ==
    IF headers = <<>>
    THEN out
    ELSE LET name == Head(headers).name
             value == unwrap_or(to_str(Head(headers).value), "[invalid]")
         IN headers_to_map_loop(Tail(headers),
                IF is_authorization(name)
                THEN insert(out, name, redacted_value(value))
                ELSE insert(out, name, value))

headers_to_map(headers) == headers_to_map_loop(headers, <<>>)

\* build_audit_context: no context when audit logging is off
BuildAuditContext ==
    /\ hdr_pc = "start"
    /\ IF audit_enabled
       THEN /\ audit_context' = Some(headers_to_map(request_headers))
            /\ hdr_pc' = "context"
       ELSE /\ audit_context' = None
            /\ hdr_pc' = "finished"
    /\ UNCHANGED <<request_headers, response_headers, audit_record>>
    /\ UNCHANGED <<serverVars, routeVars, translateVars, rotateVars, splitVars>>

\* AuditContext::finish, called with headers_to_map of the response headers
Finish(headers) ==
    /\ hdr_pc = "context"
    /\ response_headers' = headers
    /\ audit_record' = Some([request |-> audit_context[1],
                             response |-> headers_to_map(headers)])
    /\ hdr_pc' = "finished"
    /\ UNCHANGED <<request_headers, audit_context>>
    /\ UNCHANGED <<serverVars, routeVars, translateVars, rotateVars, splitVars>>

----------------------------------------------------------------------------
(* The drain loop's line buffer (stream_messages, streaming.rs 176-196).   *)
(* The upstream's bytes are a sequence of bytes, an ASCII byte written as  *)
(* its character and the two bytes of the UTF-8 encoding of U+00E9 as      *)
(* "C3" and "A9"; a String is a sequence of characters, "U+00E9" and       *)
(* "U+FFFD" among them. What handle_openai_chunk does with a payload is    *)
(* the drain task above; here the payloads reaching it are recorded. The   *)
(* characters between the braces of a payload stand for the text of one of *)
(* its string members.                                                     *)

MaxLines == 2

LF == "\n"
CR == "\r"

DataPrefix == <<"d", "a", "t", "a", ":">>
DoneData == <<"[", "D", "O", "N", "E", "]">>

\* String::from_utf8_lossy: a complete C3 A9 is U+00E9; a C3 that is cut
\* off or followed by something else, and an A9 on its own, are U+FFFD
RECURSIVE from_utf8_lossy(_)
from_utf8_lossy(bytes) ==
    IF bytes = <<>> THEN <<>>
    ELSE IF Head(bytes) = "C3"
    THEN IF Len(bytes) >= 2 /\ bytes[2] = "A9"
         THEN <<"U+00E9">> \o from_utf8_lossy(Tail(Tail(bytes)))
         ELSE <<"U+FFFD">> \o from_utf8_lossy(Tail(bytes))
    ELSE IF Head(bytes) = "A9"
    THEN <<"U+FFFD">> \o from_utf8_lossy(Tail(bytes))
    ELSE <<Head(bytes)>> \o from_utf8_lossy(Tail(bytes))

\* str::find(c): the first position of c, 0 for None
find(s, c) ==
    IF \E i \in DOMAIN s : s[i] = c
    THEN CHOOSE i \in DOMAIN s : s[i] = c /\ \A j \in 1..(i - 1) : s[j] # c
    ELSE 0

RECURSIVE trim_end_matches(_, _)
trim_end_matches(s, c) ==
    IF s # <<>> /\ s[Len(s)] = c
    THEN trim_end_matches(SubSeq(s, 1, Len(s) - 1), c)
    ELSE s

starts_with(s, prefix) ==
    Len(s) >= Len(prefix) /\ SubSeq(s, 1, Len(prefix)) = prefix

RECURSIVE trim_start_matches(_, _)
trim_start_matches(s, prefix) ==
    IF starts_with(s, prefix)
    THEN trim_start_matches(SubSeq(s, Len(prefix) + 1, Len(s)), prefix)
    ELSE s

is_whitespace(c) == c \in { " ", CR, LF }

\* str::trim
RECURSIVE trim(_)
trim(s) ==
    IF s # <<>> /\ is_whitespace(s[1]) THEN trim(Tail(s))
    ELSE IF s # <<>> /\ is_whitespace(s[Len(s)]) THEN trim(SubSeq(s, 1, Len(s) - 1))
    ELSE s

\* serde_json::from_str::<OpenAIStreamChunk> succeeds on an object
chunk_parses(data) ==
    Len(data) >= 2 /\ data[1] = "{" /\ data[Len(data)] = "}"

\* while let Some(pos) = buffer.find('\n') { .. }: the buffer left, the
\* payloads handled, and whether the task returned (after [DONE], or after
\* a payload that does not parse)
RECURSIVE drain_buffer(_, _)
drain_buffer(buf, handled) ==
    LET pos == find(buf, LF) IN
    IF pos = 0
    THEN [buffer |-> buf, payloads |-> handled, returned |-> FALSE]
    ELSE LET line == trim_end_matches(SubSeq(buf, 1, pos - 1), CR)
             left == SubSeq(buf, pos + 1, Len(buf))
             data == trim(trim_start_matches(line, DataPrefix))
         IN IF line = <<>> \/ ~starts_with(line, DataPrefix)
            THEN drain_buffer(left, handled)
            ELSE IF data = DoneData \/ ~chunk_parses(data)
            THEN [buffer |-> left, payloads |-> Append(handled, data),
                  returned |-> TRUE]
            ELSE drain_buffer(left, Append(handled, data))

\* stream.next() yields the next n bytes: push them and run the loop
SplitRead(n) ==
    /\ split_pc = "read"
    /\ n \in 1..Len(rest)
    /\ LET chunk == SubSeq(rest, 1, n)
           r == drain_buffer(buffer \o from_utf8_lossy(chunk), payloads)
       IN /\ buffer' = r.buffer
          /\ payloads' = r.payloads
          /\ split_pc' = IF r.returned THEN "done" ELSE "read"
    /\ rest' = SubSeq(rest, n + 1, Len(rest))
    /\ UNCHANGED wire
    /\ UNCHANGED <<serverVars, routeVars, translateVars, rotateVars, headerVars>>

\* stream.next() yields None
SplitEnd ==
    /\ split_pc = "read"
    /\ rest = <<>>
    /\ split_pc' = "done"
    /\ UNCHANGED <<wire, rest, buffer, payloads>>
    /\ UNCHANGED <<serverVars, routeVars, translateVars, rotateVars, headerVars>>

\* the lines of the modelled upstreams
WireLines ==
    { DataPrefix \o <<"{", "}", LF>>,
      DataPrefix \o <<" ", "{", "C3", "A9", "}", CR, LF>>,
      <<LF>>,
      <<":", "k", LF>>,
      DataPrefix \o <<" ">> \o DoneData \o <<LF>> }

RECURSIVE JoinLines(_)
JoinLines(seqs) == IF seqs = <<>> THEN <<>> ELSE Head(seqs) \o JoinLines(Tail(seqs))

Wires == { JoinLines(ls) : ls \in SeqsUpTo(WireLines, MaxLines) }

----------------------------------------------------------------------------
(* Specifications                                                          *)

\* no request has arrived yet, the audit queue is empty
InitServer ==
    /\ permits = max_inflight
    /\ holders = {}
    /\ inflight_count = 0
    /\ guards = {}
    /\ req_pc = [r \in Requests |-> "start"]
    /\ exit_path = [r \in Requests |-> NoExit]
    /\ errors_added = [r \in Requests |-> <<>>]
    /\ audit_pushed = [r \in Requests |-> <<>>]
    /\ response = [r \in Requests |-> None]
    /\ audit_len = 0
    /\ push_pc = [p \in Pushers |-> "idle"]
    /\ REQUEST_COUNTER = 1
    /\ request_seq = [r \in Requests |-> 0]
    /\ upstream = [r \in Requests |-> None]

InitStreams ==
    /\ pc = "drain"
    /\ frames = 0
    /\ tx = <<>>
    /\ started = FALSE
    /\ next_index = 0
    /\ text_block_index = None
    /\ thinking_block_index = None
    /\ tool_calls = <<>>
    /\ metric_errors = <<>>
    /\ flush_calls = 0
    /\ relay_pc = "relay"
    /\ relay_n = 0
    /\ relay_upstream = <<>>
    /\ relay_tx = <<>>
    /\ rx_open = TRUE
    /\ audit_buf = <<>>
    /\ audit_truncated = FALSE
    /\ relay_errors = <<>>
    /\ relay_audit = <<>>

RouteIdle ==
    /\ allowlist = {}
    /\ blocklist = {}
    /\ model_map = <<>>
    /\ payload_model = None
    /\ route_pc = "idle"
    /\ route_result = NoRoute

TranslateIdle ==
    /\ tr_pc = "idle"
    /\ tr_config = DefaultConfig
    /\ anthropic_req = None
    /\ openai_req = None
    /\ openai_resp = None
    /\ anthropic_resp = None

RotateIdle ==
    /\ clock = 0
    /\ base_path = <<"audit", ".jsonl">>
    /\ worker_pc = "idle"
    /\ current_path = <<>>
    /\ file = None
    /\ current_size = 0
    /\ log_files = <<>>
    /\ dequeued = 0
    /\ last_io = NoIo

HeaderIdle ==
    /\ hdr_pc = "idle"
    /\ request_headers = <<>>
    /\ response_headers = <<>>
    /\ audit_context = None
    /\ audit_record = None

SplitIdle ==
    /\ split_pc = "idle"
    /\ wire = <<>>
    /\ rest = <<>>
    /\ buffer = <<>>
    /\ payloads = <<>>

LateIdle == HeaderIdle /\ SplitIdle

InitIdle == RouteIdle /\ TranslateIdle /\ RotateIdle /\ LateIdle

Init ==
    /\ InitStreams
    /\ forward_mode = "translate"
    /\ audit_enabled = TRUE
    /\ audit_room = TRUE
    /\ InitServer
    /\ InitIdle

Next ==
    \/ \E parsed \in Chunks, order \in IterOrders : Chunk(parsed, order)
    \/ \E order \in IterOrders : Done(order)
    \/ InvalidChunk
    \/ ReadError
    \/ UpstreamEnd

\* the translate-mode drain task
Spec == Init /\ [][Next]_vars

NextRelay ==
    \/ \E bytes \in Bytes : RelayChunk(bytes)
    \/ RelayReadError
    \/ RelayUpstreamEnd
    \/ ClientDisconnect

\* the pass-through relay task
SpecRelay == Init /\ [][NextRelay]_vars

NextDisconnect ==
    \/ Next
    \/ DrainClientDisconnect

\* the translate-mode drain task with a client that may go away
SpecDisconnect == Init /\ [][NextDisconnect]_vars

\* a gateway in either forward mode, with or without audit logging, whose
\* audit queue may already be full of the records of earlier requests
InitGate ==
    /\ InitStreams
    /\ forward_mode \in { "translate", "passthrough" }
    /\ audit_enabled \in BOOLEAN
    /\ audit_room \in (IF audit_enabled THEN BOOLEAN ELSE { TRUE })
    /\ InitServer
    /\ InitIdle

HandlerStep(r) ==
    \/ \E o \in TranslateOutcomes, up \in UpstreamStatuses : TranslateHandler(r, o, up)
    \/ \E o \in PassthroughOutcomes, up \in PassthroughStatuses, body \in UpstreamBodies :
           PassthroughHandler(r, o, up, body)
    \/ StreamSpawn(r)

TaskStep(r) ==
    \/ \E o \in DrainTaskOutcomes : DrainTaskEnd(r, o)
    \/ \E o \in RelayTaskOutcomes : RelayTaskEnd(r, o)

NextGate ==
    \/ \E r \in Requests, o \in ValidateOutcomes : Validate(r, o)
    \/ \E r \in Requests : TryAcquire(r)
    \/ \E r \in Requests : InflightGuard_new(r)
    \/ \E r \in Requests : HandlerStep(r)
    \/ \E r \in Requests : TaskStep(r)
    \/ \E r \in Requests : AuditPush(r)
    \/ \E r \in Requests : Drop_InflightGuard(r)
    \/ \E r \in Requests : Drop_permit(r)
    \/ AuditWorkerRecv

\* concurrent POST /v1/messages requests
SpecGate == InitGate /\ [][NextGate]_vars

\* the runtime keeps scheduling every handler, every spawned task and the
\* audit worker; a stream that was started ends
FairGate ==
    /\ \A r \in Requests :
         /\ WF_vars(InflightGuard_new(r))
         /\ WF_vars(HandlerStep(r))
         /\ WF_vars(TaskStep(r))
         /\ WF_vars(AuditPush(r))
         /\ WF_vars(Drop_InflightGuard(r))
         /\ WF_vars(Drop_permit(r))
    /\ WF_vars(AuditWorkerRecv)

SpecGateFair == SpecGate /\ FairGate

NextAudit ==
    \/ \E p \in Pushers : Push(p)
    \/ \E p \in Pushers : PushResume(p)
    \/ WorkerRecv

\* callers of AuditLogger::push and the audit worker
SpecAudit == Init /\ [][NextAudit]_vars

\* one request body against every configuration of the model lists
InitRoute ==
    /\ InitStreams
    /\ forward_mode \in { "translate", "passthrough" }
    /\ audit_enabled = TRUE
    /\ audit_room = TRUE
    /\ InitServer
    /\ LateIdle
    /\ allowlist \in SUBSET ModelNames
    /\ blocklist \in SUBSET ModelNames
    /\ model_map \in ModelMaps
    /\ payload_model \in PayloadModels
    /\ route_pc = "start"
    /\ route_result = NoRoute
    /\ TranslateIdle
    /\ RotateIdle

NextRoute == Route

SpecRoute == InitRoute /\ [][NextRoute]_vars

\* one request or one response about to be translated: a message of blocks
\* under every media policy, a message of tool and thinking blocks under
\* the default policy, messages of plain text with every system form, or a
\* response of the upstream
InitTranslate ==
    /\ InitStreams
    /\ forward_mode = "translate"
    /\ audit_enabled = TRUE
    /\ audit_room = TRUE
    /\ InitServer
    /\ LateIdle
    /\ RouteIdle
    /\ RotateIdle
    /\ openai_req = None
    /\ anthropic_resp = None
    /\ \/ /\ tr_pc = "request"
          /\ openai_resp = None
          /\ \/ /\ tr_config \in TranslateConfigs
                /\ anthropic_req \in BlockRequests(MediaBlocks, { None })
             \/ /\ tr_config = DefaultConfig
                /\ anthropic_req \in BlockRequests(ToolBlocks, Thinkings)
             \/ /\ tr_config = DefaultConfig
                /\ anthropic_req \in TextRequests
       \/ /\ tr_pc = "response"
          /\ tr_config = DefaultConfig
          /\ anthropic_req = None
          /\ openai_resp \in OpenAIResponses

NextTranslate ==
    \/ AnthropicToOpenAI
    \/ OpenAIToAnthropic

SpecTranslate == InitTranslate /\ [][NextTranslate]_vars

\* AuditLogger::new has spawned the worker; no log file exists yet
InitRotate ==
    /\ InitStreams
    /\ forward_mode = "translate"
    /\ audit_enabled = TRUE
    /\ audit_room = TRUE
    /\ InitServer
    /\ LateIdle
    /\ RouteIdle
    /\ TranslateIdle
    /\ clock = 0
    /\ base_path \in BasePaths
    /\ worker_pc = "new"
    /\ current_path = <<>>
    /\ file = None
    /\ current_size = 0
    /\ log_files = <<>>
    /\ dequeued = 0
    /\ last_io = NoIo

NextRotate ==
    \/ \E open_ok \in BOOLEAN : WorkerStart(open_ok)
    \/ \E len \in RecordLens, open_ok, write_ok, newline_ok \in BOOLEAN :
           WorkerRecord(len, open_ok, write_ok, newline_ok)
    \/ Tick

\* the audit worker and its log files
SpecRotate == InitRotate /\ [][NextRotate]_vars

\* one request whose audit record is built: any request headers, any
\* response headers
InitHeaders ==
    /\ InitStreams
    /\ forward_mode = "translate"
    /\ audit_enabled \in BOOLEAN
    /\ audit_room = TRUE
    /\ InitServer
    /\ RouteIdle
    /\ TranslateIdle
    /\ RotateIdle
    /\ SplitIdle
    /\ hdr_pc = "start"
    /\ request_headers \in HeaderMaps
    /\ response_headers = <<>>
    /\ audit_context = None
    /\ audit_record = None

NextHeaders ==
    \/ BuildAuditContext
    \/ \E headers \in HeaderMaps : Finish(headers)

SpecHeaders == InitHeaders /\ [][NextHeaders]_vars

\* one upstream byte stream, delivered in chunks of any sizes
InitSplit ==
    /\ InitStreams
    /\ forward_mode = "translate"
    /\ audit_enabled = TRUE
    /\ audit_room = TRUE
    /\ InitServer
    /\ RouteIdle
    /\ TranslateIdle
    /\ RotateIdle
    /\ HeaderIdle
    /\ split_pc = "read"
    /\ wire \in Wires
    /\ rest = wire
    /\ buffer = <<>>
    /\ payloads = <<>>

NextSplit ==
    \/ \E n \in 1..Len(rest) : SplitRead(n)
    \/ SplitEnd

SpecSplit == InitSplit /\ [][NextSplit]_vars

----------------------------------------------------------------------------
(* Reading the downstream event sequence                                   *)

IsStart(e) == e.event = "content_block_start"
IsDelta(e) == e.event = "content_block_delta"
IsStop(e) == e.event = "content_block_stop"
IsBlockEvent(e) == IsStart(e) \/ IsDelta(e) \/ IsStop(e)

StartsOf(i) == { p \in DOMAIN tx : IsStart(tx[p]) /\ tx[p].index = i }
DeltasOf(i) == { p \in DOMAIN tx : IsDelta(tx[p]) /\ tx[p].index = i }
StopsOf(i) == { p \in DOMAIN tx : IsStop(tx[p]) /\ tx[p].index = i }

\* the stream has sent a terminal event
Terminated ==
    tx # <<>> /\ tx[Len(tx)].event \in {"message_stop", "error"}

\* The grammar
\*   message_start (content_block_start (content_block_delta)*
\*                  content_block_stop)* message_delta? message_stop
\* as an automaton over event names; "E" is reached from a prefix by one
\* error event, "bad" by any event the grammar does not allow.
GrammarStep(q, name) ==
    IF q \in {"0", "1", "2", "3"} /\ name = "error" THEN "E"
    ELSE CASE q = "0" -> IF name = "message_start" THEN "1" ELSE "bad"
           [] q = "1" -> CASE name = "content_block_start" -> "2"
                           [] name = "message_delta" -> "3"
                           [] name = "message_stop" -> "4"
                           [] OTHER -> "bad"
           [] q = "2" -> CASE name = "content_block_delta" -> "2"
                           [] name = "content_block_stop" -> "1"
                           [] OTHER -> "bad"
           [] q = "3" -> IF name = "message_stop" THEN "4" ELSE "bad"
           [] OTHER -> "bad"

RECURSIVE GrammarRun(_, _)
GrammarRun(q, seq) ==
    IF seq = <<>> THEN q
    ELSE GrammarRun(GrammarStep(q, Head(seq).event), Tail(seq))

\* C1 (as claimed): the event names sent so far are a prefix of a word of
\* the grammar, or such a prefix ended by one error event; and no start or
\* delta of another block lies between the start of a block and its stop.
C1_EventGrammar ==
    /\ GrammarRun("0", tx) # "bad"
    /\ \A p, q \in DOMAIN tx :
         ( /\ p < q
           /\ IsStart(tx[p])
           /\ IsStart(tx[q]) \/ IsDelta(tx[q])
           /\ tx[q].index # tx[p].index )
         => \E r \in DOMAIN tx : p < r /\ r < q /\ IsStop(tx[r])
                                 /\ tx[r].index = tx[p].index

\* C2 (as claimed): per block, start before every delta and every delta
\* before the stop; every block event before message_delta; at most one
\* message_delta; message_delta before message_stop.
C2_CausalOrder ==
    /\ \A q \in DOMAIN tx : IsDelta(tx[q]) =>
         \E p \in StartsOf(tx[q].index) : p < q
    /\ \A p, q \in DOMAIN tx :
         (IsDelta(tx[p]) /\ IsStop(tx[q]) /\ tx[p].index = tx[q].index) => p < q
    /\ \A p, q \in DOMAIN tx :
         (IsBlockEvent(tx[p]) /\ tx[q].event = "message_delta") => p < q
    /\ Cardinality({ p \in DOMAIN tx : tx[p].event = "message_delta" }) <= 1
    /\ \A p, q \in DOMAIN tx :
         (tx[p].event = "message_delta" /\ tx[q].event = "message_stop") => p < q

\* C3 (as claimed): once the stream has sent its terminal event
\* (message_stop or error), every block that was started has been stopped
\* exactly once.
C3_StartedBlocksStopped ==
    Terminated =>
        \A p \in DOMAIN tx : IsStart(tx[p]) =>
            Cardinality(StopsOf(tx[p].index)) = 1

\* C4 (as claimed): message_start is sent at most once, and every
\* content_block_*, message_delta and message_stop event has a
\* message_start before it.
C4_MessageStartFirst ==
    /\ Cardinality({ p \in DOMAIN tx : tx[p].event = "message_start" }) <= 1
    /\ \A q \in DOMAIN tx :
         (IsBlockEvent(tx[q]) \/ tx[q].event \in {"message_delta", "message_stop"})
         => \E p \in DOMAIN tx : p < q /\ tx[p].event = "message_start"

\* C5 (as claimed): when message_stop has been sent ([DONE] arrived and the
\* flush succeeded) it was sent once, it is the last event, and no block is
\* open: every content_block_start is followed by a stop of its index.
C5_MessageStopClosesAll ==
    \A m \in DOMAIN tx : tx[m].event = "message_stop" =>
        /\ m = Len(tx)
        /\ pc = "done"
        /\ \A p \in DOMAIN tx : IsStart(tx[p]) =>
             \E q \in StopsOf(tx[p].index) : p < q

\* the positions of the content_block_start events, in emission order
RECURSIVE StartIndexes(_)
StartIndexes(seq) ==
    IF seq = <<>> THEN <<>>
    ELSE IF IsStart(Head(seq))
         THEN <<Head(seq).index>> \o StartIndexes(Tail(seq))
         ELSE StartIndexes(Tail(seq))

\* C6 (as claimed): the indexes carried by successive content_block_start
\* events are 0, 1, 2, ... without gap or repeat.
C6_ContiguousIndexes ==
    LET ix == StartIndexes(tx) IN
    \A n \in DOMAIN ix : ix[n] = n - 1

\* the blocks of content type `typ` that are open: content_block_start
\* sent, content_block_stop not sent
OpenBlocks(typ) ==
    { i \in 0..(next_index - 1) :
        /\ \E p \in StartsOf(i) : tx[p].typ = typ
        /\ StopsOf(i) = {} }

\* C7: at most one text block and at most one thinking block is open, and
\* text_block_index / thinking_block_index is Some(i) exactly while block i
\* of that type is open.
C7_OneOpenTextOneOpenThinking ==
    /\ Cardinality(OpenBlocks("text")) <= 1
    /\ Cardinality(OpenBlocks("thinking")) <= 1
    /\ OpenBlocks("text") =
         (IF text_block_index = None THEN {} ELSE {text_block_index[1]})
    /\ OpenBlocks("thinking") =
         (IF thinking_block_index = None THEN {} ELSE {thinking_block_index[1]})

\* a text block and a thinking block are open together
C7_Witness ==
    /\ text_block_index # None
    /\ thinking_block_index # None
    /\ OpenBlocks("text") # {}
    /\ OpenBlocks("thinking") # {}

\* the events a step appends to the channel
NewEvents == SubSeq(tx', Len(tx) + 1, Len(tx'))

\* the partial_json of the input_json_delta events of block b in seq, joined
RECURSIVE JoinedDeltas(_, _)
JoinedDeltas(seq, b) ==
    IF seq = <<>> THEN <<>>
    ELSE IF IsDelta(Head(seq)) /\ Head(seq).index = b
         THEN Head(seq).data \o JoinedDeltas(Tail(seq), b)
         ELSE JoinedDeltas(Tail(seq), b)

C8_State ==
    \A k \in DOMAIN tool_calls :
        LET tool == tool_calls[k]
            b == tool.block_index
        IN /\ Cardinality(StartsOf(b)) <= 1
           /\ (StartsOf(b) # {}) <=> tool.started
           /\ tool.started => tool.id # None /\ tool.name # None
           /\ \A p \in StartsOf(b) : tx[p].typ = "tool_use"
           /\ \A q \in DeltasOf(b) :
                /\ tx[q].typ = "input_json_delta"
                /\ \E p \in StartsOf(b) : p < q

C8_Step ==
    \A k \in DOMAIN tool_calls' :
        LET after == tool_calls'[k]
            b == after.block_index
            was_started == k \in DOMAIN tool_calls /\ tool_calls[k].started
            old_arguments == IF k \in DOMAIN tool_calls
                             THEN tool_calls[k].arguments ELSE <<>>
            new == NewEvents
            starts == { p \in DOMAIN new : IsStart(new[p]) /\ new[p].index = b }
            deltas == { p \in DOMAIN new : IsDelta(new[p]) /\ new[p].index = b }
        IN /\ ~after.started => starts = {} /\ deltas = {}
           /\ (~was_started /\ after.started) =>
                \E p \in DOMAIN new :
                    /\ starts = {p}
                    /\ IF after.arguments = <<>> THEN deltas = {}
                       ELSE /\ deltas = {p + 1}
                            /\ new[p + 1].data = after.arguments
           /\ was_started =>
                /\ starts = {}
                /\ after.arguments = old_arguments \o JoinedDeltas(new, b)

\* C8: per upstream tool-call index, content_block_start (tool_use) is sent
\* at most once and only with id and name known; no input_json_delta comes
\* before it; the step that starts the block sends the start and right
\* after it one input_json_delta with everything buffered so far (none if
\* nothing was buffered); later fragments go out as further deltas.
C8_ToolUseStart == []C8_State /\ [][C8_Step]_vars

\* a tool block started with buffered arguments and then fed a later fragment
C8_Witness ==
    \E k \in DOMAIN tool_calls :
        LET b == tool_calls[k].block_index IN
        /\ tool_calls[k].started
        /\ \E p \in StartsOf(b) :
             /\ p + 2 \in DOMAIN tx
             /\ tx[p + 1] = sse_block_delta(b, "input_json_delta", <<"{">>)
             /\ tx[p + 2] = sse_block_delta(b, "input_json_delta", <<"}">>)

BadArguments == \E k \in DOMAIN tool_calls :
                    tool_calls[k].started /\ ~IsJson(tool_calls[k].arguments)

\* C9: a flush (on a chunk with finish_reason, or on [DONE]) that finds a
\* started tool call whose accumulated arguments are empty or not JSON
\* fails: the step ends the stream with an error event of type
\* invalid_request_error, sends no message_delta and no message_stop.
C9_FlushRejectsBadArguments ==
    [][ (flush_calls' = flush_calls + 1 /\ BadArguments')
        => /\ pc' = "done"
           /\ tx' # <<>>
           /\ tx'[Len(tx')].event = "error"
           /\ tx'[Len(tx')].typ = "invalid_request_error"
           /\ metric_errors' = Append(metric_errors, "invalid_request_error")
           /\ \A p \in DOMAIN NewEvents : NewEvents[p].event # "message_delta"
           /\ \A p \in DOMAIN tx' : tx'[p].event # "message_stop" ]_vars

\* a stream ended by the flush error while a started tool call holds
\* arguments that are not JSON and another tool block was open
C9_Witness ==
    /\ pc = "done"
    /\ flush_calls > 0
    /\ tx # <<>> /\ tx[Len(tx)].typ = "invalid_request_error"
    /\ \E k \in DOMAIN tool_calls :
         tool_calls[k].started /\ tool_calls[k].arguments = <<"{">>
    /\ Cardinality(DOMAIN tool_calls) = 2

\* C10 (as claimed): in either streaming path, a stream error recorded
\* after the response was established has been delivered as exactly one
\* error event, which is the last thing sent, and the task has ended.
C10_ErrorEventBothPaths ==
    /\ metric_errors # <<>> =>
         /\ pc = "done"
         /\ Cardinality({ p \in DOMAIN tx : tx[p].event = "error" }) = 1
         /\ tx[Len(tx)].event = "error"
    /\ relay_errors # <<>> =>
         /\ relay_pc = "done"
         /\ Cardinality({ p \in DOMAIN relay_tx : relay_tx[p].kind = "error" }) = 1
         /\ relay_tx[Len(relay_tx)].kind = "error"

----------------------------------------------------------------------------
(* Client disconnect and the inflight slot                                 *)

\* C11 (as claimed): once the downstream receiver of a translate-mode
\* stream is dropped, the first step of the drain task that attempts a send
\* ends the task (so that its InflightGuard is dropped), instead of going on
\* to handle further upstream frames.
C11_DisconnectEndsTask ==
    [][(~rx_open /\ pc = "drain" /\ Len(tx') > Len(tx)) => pc' = "done"]_vars

----------------------------------------------------------------------------
(* Inflight accounting and admission                                       *)

\* positions at which a request owns a live InflightGuard: from its
\* admission until its handler has returned or its spawned task has ended
LivePositions == { "admitted", "task", "push", "drop_guard" }

AllFinished == \A r \in Requests : req_pc[r] = "done"

C13_State ==
    /\ Cardinality(holders) <= max_inflight
    /\ permits = max_inflight - Cardinality(holders)

C13_Step ==
    \A r \in Requests :
        (req_pc[r] = "admission" /\ req_pc'[r] # "admission") =>
            IF Cardinality(holders) = max_inflight
            THEN /\ req_pc'[r] = "done"
                 /\ r \notin holders'
                 /\ response'[r] = Some([status |-> 429,
                                         error_type |-> "rate_limit_error",
                                         message |-> "too many in-flight requests"])
            ELSE /\ req_pc'[r] = "acquired"
                 /\ r \in holders'
                 /\ response'[r] = None

\* C13: never more than max_inflight requests hold a slot; a request that
\* reaches admission with every slot held leaves it at once, rejected with
\* rate_limit_error "too many in-flight requests" and status 429, without
\* waiting for a slot; with a free slot it is admitted.
C13_Admission == []C13_State /\ [][C13_Step]_vars

\* a request was rejected at admission while another one holds the only slot
C13_Witness ==
    \E r, q \in Requests :
        /\ exit_path[r].path = "rate_limited" /\ req_pc[r] = "done"
        /\ q \in holders /\ req_pc[q] = "task"

\* C14: every slot that was acquired is released again, whatever exit path
\* the handler or the spawned task takes, and a streamed request keeps its
\* slot for as long as its task runs.
C14_SlotReleased ==
    /\ [](\A r \in Requests :
            req_pc[r] \in { "task", "push" } => (r \in holders /\ r \in guards))
    /\ \A r \in Requests : (r \in holders) ~> (r \notin holders)

\* a streamed request whose upstream ended without [DONE] has finished and
\* its slot is back in the semaphore
C14_Witness ==
    \E r \in Requests :
        /\ req_pc[r] = "done" /\ exit_path[r].path = "task_upstream_end"
        /\ r \notin holders /\ permits = max_inflight

----------------------------------------------------------------------------
(* Audit records, error counter, statuses                                  *)

\* C15 (as claimed): push never waits: no caller of AuditLogger::push is
\* ever left pending inside push, even when the queue holds its capacity.
C15_PushNeverWaits ==
    \A p \in Pushers : push_pc[p] # "waiting"

PreAdmissionPaths == { "missing_model", "not_in_allowlist", "blocked", "rate_limited" }

\* C16 (as claimed): with audit logging enabled, a request that was admitted
\* and has ended (handler returned, or spawned task ended) has pushed exactly
\* one audit record.
C16_OneAuditRecord ==
    \A r \in Requests :
        (audit_enabled /\ req_pc[r] = "done"
             /\ exit_path[r].path \notin PreAdmissionPaths) =>
            Len(audit_pushed[r]) = 1

\* C17 (as claimed): a request that ended on a path that built an error has
\* added to the errors counter exactly once, with that error's kind.
C17_ErrorsCountedOnce ==
    \A r \in Requests :
        (req_pc[r] = "done" /\ exit_path[r].err # None) =>
            errors_added[r] = << exit_path[r].err[1].error_type >>

CanonicalStatus(kind) ==
    CASE kind = "invalid_request_error" -> 400
      [] kind = "rate_limit_error" -> 429
      [] kind = "api_error" -> 500

DownstreamOriginPaths == { "upstream_status", "stream_upstream_status" }

\* C18 (as claimed): in translate mode an error response built by
\* map_downstream_error has status 502, and every other error response has
\* the canonical status of its kind (400, 429, 500) and not 502.
C18_CanonicalStatus ==
    \A r \in Requests :
        (forward_mode = "translate" /\ response[r] # None
             /\ response[r][1].error_type # "") =>
            IF exit_path[r].path \in DownstreamOriginPaths
            THEN response[r][1].status = 502
            ELSE response[r][1].status = CanonicalStatus(response[r][1].error_type)

----------------------------------------------------------------------------
(* The pass-through relay: audit capture and forwarding                    *)

RECURSIVE Flatten(_)
Flatten(chunks) ==
    IF chunks = <<>> THEN <<>> ELSE Head(chunks) \o Flatten(Tail(chunks))

\* the byte chunks the relay put on the downstream channel, in order
Forwarded == [i \in 1..Len(relay_tx) |-> relay_tx[i].bytes]

\* buf consists of the first k chunks of `chunks`, for some k
WholeChunkPrefix(buf, chunks) ==
    \E k \in 0..Len(chunks) : buf = Flatten(SubSeq(chunks, 1, k))

C19_State ==
    /\ Len(audit_buf) <= max_body_bytes
    /\ WholeChunkPrefix(audit_buf, relay_upstream)
    /\ WholeChunkPrefix(audit_buf, Forwarded)
         \/ ( /\ ~rx_open /\ relay_pc = "done" /\ relay_upstream # <<>>
              /\ WholeChunkPrefix(audit_buf, Append(Forwarded,
                                      relay_upstream[Len(relay_upstream)])) )
    /\ relay_pc = "done" =>
         /\ Len(relay_audit) = 1
         /\ relay_audit[1].body = audit_buf
         /\ relay_audit[1].body_truncated = audit_truncated

C19_Step ==
    /\ audit_truncated => (audit_truncated' /\ audit_buf' = audit_buf)
    /\ (~audit_truncated /\ relay_n' = relay_n + 1) =>
         LET bytes == relay_upstream'[Len(relay_upstream')] IN
         IF Len(audit_buf) + Len(bytes) <= max_body_bytes
         THEN audit_buf' = audit_buf \o bytes /\ ~audit_truncated'
         ELSE audit_buf' = audit_buf /\ audit_truncated'
    /\ relay_n' = relay_n => (audit_buf' = audit_buf /\ audit_truncated' = audit_truncated)

C20_ForwardedEqualsUpstream ==
    /\ \A i \in DOMAIN relay_tx : relay_tx[i].kind = "bytes"
    /\ Len(Forwarded) <= Len(relay_upstream)
    /\ Forwarded = SubSeq(relay_upstream, 1, Len(Forwarded))
    /\ Len(relay_upstream) - Len(Forwarded) <= 1
    /\ Len(relay_upstream) > Len(Forwarded) => (~rx_open /\ relay_pc = "done")
    /\ (rx_open \/ relay_pc = "relay") => Forwarded = relay_upstream

\* three chunks were forwarded, the last two of them after the audit
\* capture had been cut
C20_Witness ==
    /\ audit_truncated
    /\ Len(relay_tx) = 3
    /\ Forwarded = relay_upstream
    /\ Len(audit_buf) = Len(relay_upstream[1])
    /\ audit_buf = relay_upstream[1]

----------------------------------------------------------------------------
(* Request ids                                                             *)

\* requests that have entered post_messages
Entered == { r \in Requests : req_pc[r] # "start" }

C23_State ==
    /\ \A r \in Requests : (r \in Entered) <=> (request_seq[r] >= 1)
    /\ \A r, q \in Entered : r # q => request_seq[r] # request_seq[q]
    /\ { request_seq[r] : r \in Entered } = 1..Cardinality(Entered)
    /\ REQUEST_COUNTER = 1 + Cardinality(Entered)

C23_Step ==
    \A r \in Requests :
        (req_pc[r] = "start" /\ req_pc'[r] # "start") =>
            /\ request_seq'[r] = REQUEST_COUNTER
            /\ REQUEST_COUNTER' = REQUEST_COUNTER + 1
            /\ \A q \in Entered : request_seq[q] < request_seq'[r]
            /\ \A q \in Requests \ {r} : request_seq'[q] = request_seq[q]

\* C23: the counter part of request_id comes from a process-wide counter
\* that starts at 1 and is advanced atomically: concurrent requests never
\* get the same value, values are handed out in strictly increasing order,
\* the first request gets 1, and every request that enters the handler
\* consumes a value, also one that is rejected afterwards.
C23_RequestCounter == []C23_State /\ [][C23_Step]_vars

\* both requests got their ids, the first of them was rejected in
\* validation and still consumed the value 1
C23_Witness ==
    \E r, q \in Requests :
        /\ request_seq[r] = 1 /\ exit_path[r].path = "missing_model"
        /\ request_seq[q] = 2

----------------------------------------------------------------------------
(* The model name: model_map, allowlist, blocklist                         *)

Routed == route_pc = "done" /\ route_result.err = None

\* C21: model_map is applied only in translate mode. In pass-through mode
\* the body forwarded upstream carries the client's model unchanged, also
\* when model_map has an entry for it; in translate mode the upstream
\* request's model is model_map[model] when there is an entry and the
\* client's model otherwise.
C21_ModelMapOnlyInTranslate ==
    Routed =>
        LET model == payload_model[1] IN
        /\ forward_mode = "passthrough" =>
               route_result.upstream_model = Some(model)
        /\ (forward_mode = "translate" /\ model \in DOMAIN model_map) =>
               route_result.upstream_model = Some(model_map[model])
        /\ (forward_mode = "translate" /\ model \notin DOMAIN model_map) =>
               route_result.upstream_model = Some(model)

\* a pass-through request whose model has an entry that names another model
C21_Witness ==
    /\ Routed
    /\ forward_mode = "passthrough"
    /\ payload_model = Some("a")
    /\ "a" \in DOMAIN model_map /\ model_map["a"] = "m"
    /\ route_result.upstream_model = Some("a")

RejectedWith(message) ==
    /\ route_pc = "done"
    /\ route_result.err = Some(AppError_invalid_request(message))

\* C24: a request that names a model is rejected with invalid_request_error
\* "model not in allowlist" exactly when the allowlist is non-empty and
\* lacks the client-supplied name, and otherwise with "model is blocked"
\* exactly when the blocklist contains it: a name in the blocklist and in
\* the allowlist is rejected as blocked, an empty allowlist leaves only the
\* blocklist, and both checks look at the client-supplied name, not at the
\* name model_map would substitute.
C24_ModelLists ==
    (route_pc = "done" /\ extract_model(payload_model).err = None) =>
        LET model == payload_model[1]
            not_allowed == allowlist # {} /\ model \notin allowlist IN
        /\ RejectedWith("model not in allowlist") <=> not_allowed
        /\ RejectedWith("model is blocked") <=> (~not_allowed /\ model \in blocklist)
        /\ (model \in allowlist /\ model \in blocklist) => RejectedWith("model is blocked")
        /\ (allowlist = {}) => (route_result.err # None <=> model \in blocklist)
        /\ route_result.err # None =>
               \/ RejectedWith("model not in allowlist")
               \/ RejectedWith("model is blocked")

\* a blocked name that is also allowed is rejected as blocked, although
\* model_map would turn it into a name that is not blocked
C24_Witness ==
    /\ payload_model = Some("a")
    /\ allowlist = { "a" } /\ blocklist = { "a" }
    /\ "a" \in DOMAIN model_map /\ model_map["a"] = "b"
    /\ RejectedWith("model is blocked")

----------------------------------------------------------------------------
(* Pass-through: the upstream response is the client's response            *)

\* request r received the upstream's response in the pass-through branch
Received(r) == exit_path[r].path \in ReceivedOutcomes /\ upstream[r] # None

\* C22: in pass-through mode the upstream status and body are returned to
\* the client verbatim for every status, for a non-stream request and for a
\* stream request whose initiation was answered with a non-success status.
\* Such a stream request is handled as a non-stream one: the body is
\* collected, the response is audited once and returned, the inflight slot
\* is released and no relay task is spawned; the response is never turned
\* into one of the gateway's own error kinds.
C22_PassthroughVerbatim ==
    \A r \in Requests :
        (forward_mode = "passthrough" /\ Received(r)) =>
            /\ response[r] # None
            /\ response[r][1].status = upstream[r][1].status
            /\ upstream[r][1].body_read => response[r][1].body = upstream[r][1].body
            /\ response[r][1].error_type = ""
            /\ exit_path[r].err = None /\ errors_added[r] = <<>>
            /\ req_pc[r] \in { "push", "drop_guard", "drop_permit", "done" }
            /\ req_pc[r] = "push" <=> (audit_enabled /\ audit_pushed[r] = <<>>)
            /\ req_pc[r] # "push" =>
                   audit_pushed[r] = (IF audit_enabled THEN <<upstream[r][1].status>> ELSE <<>>)
            /\ req_pc[r] = "done" => r \notin holders /\ r \notin guards

\* a stream initiation answered with 503 and a body: returned as it came,
\* audited once, the slot free again
C22_Witness ==
    \E r \in Requests :
        /\ forward_mode = "passthrough" /\ audit_enabled
        /\ exit_path[r].path = "stream_upstream_status"
        /\ upstream[r] = Some([status |-> 503, body |-> <<"{", "}">>, body_read |-> TRUE])
        /\ response[r] = response_from_bytes(503, <<"{", "}">>)
        /\ audit_pushed[r] = <<503>>
        /\ req_pc[r] = "done" /\ r \notin holders

----------------------------------------------------------------------------
(* Translation of requests and responses                                   *)

RequestTranslated == tr_pc = "request_done" /\ openai_req.ok
ResponseTranslated == tr_pc = "response_done" /\ anthropic_resp.ok

RECURSIVE RequestBlocks(_)
\* the blocks of the messages with block content, in order
RequestBlocks(msgs) ==
    IF msgs = <<>> THEN <<>>
    ELSE (IF Head(msgs).content.kind = "blocks" THEN Head(msgs).content.blocks ELSE <<>>)
         \o RequestBlocks(Tail(msgs))

IsToolResult(b) == b.type = "tool_result"
IsToolUse(b) == b.type = "tool_use"
IsToolMessage(m) == m.role = "tool"
HasToolCalls(m) == m.tool_calls # None

\* C25: when anthropic_to_openai succeeds, every message it produced has a
\* role in {system, user, assistant, tool}, the messages of role tool carry,
\* one for one and in order, the tool_use_id of the tool_result blocks of
\* the request as their tool_call_id, and no other message carries a
\* tool_call_id.
C25_RolesAndToolCallIds ==
    RequestTranslated =>
        LET msgs == openai_req.value.messages
            tools == SelectSeq(msgs, IsToolMessage)
            results == SelectSeq(RequestBlocks(anthropic_req.messages), IsToolResult) IN
        /\ \A i \in DOMAIN msgs :
             /\ msgs[i].role \in { "system", "user", "assistant", "tool" }
             /\ msgs[i].role # "tool" => msgs[i].tool_call_id = None
        /\ Len(tools) = Len(results)
        /\ \A i \in DOMAIN tools : tools[i].tool_call_id = Some(results[i].tool_use_id)

\* two tool results with different ids behind a text
C25_Witness ==
    /\ RequestTranslated
    /\ anthropic_req.messages[1].content =
           ContentBlocks(<< TextBlock(<<"h">>), ToolResultBlock("u1", JsonString(<<"r">>)),
                            ToolResultBlock("u2", JsonObject) >>)
    /\ Len(openai_req.value.messages) = 3
    /\ openai_req.value.messages[2].tool_call_id = Some("u1")
    /\ openai_req.value.messages[3].tool_call_id = Some("u2")

BlockRank(b) ==
    CASE b.type = "thinking" -> 0
      [] b.type = "tool_use" -> 1
      [] b.type = "text" -> 2

IsTextBlock(b) == b.type = "text"

FirstChoice == Head(openai_resp.choices)

\* the calls of the first choice
FirstChoiceCalls ==
    IF FirstChoice.message.tool_calls = None THEN <<>> ELSE FirstChoice.message.tool_calls[1]

\* nothing in the first choice makes a block
NoBlockProduced ==
    /\ FirstChoice.message.content = None
    /\ FirstChoiceCalls = <<>>
    /\ \/ FirstChoice.message.reasoning_content = None
       \/ /\ FirstChoice.message.reasoning_content[1].json # "string"
          /\ ~is_reasoning_content(FirstChoice.message.reasoning_content[1])

\* C26: when openai_to_anthropic succeeds, the content blocks are zero or
\* more thinking blocks, then one tool_use block per tool call in upstream
\* order, then at most one text block, and there is at least one block. It
\* fails, with api_error, exactly when choices is empty, the arguments of a
\* tool call are not JSON, or no block was produced.
C26_ResponseBlocks ==
    tr_pc = "response_done" =>
        /\ anthropic_resp.ok =>
             LET blocks == anthropic_resp.value.content
                 uses == SelectSeq(blocks, IsToolUse) IN
             /\ Len(blocks) >= 1
             /\ \A i, j \in DOMAIN blocks : i < j => BlockRank(blocks[i]) <= BlockRank(blocks[j])
             /\ Len(SelectSeq(blocks, IsTextBlock)) <= 1
             /\ Len(uses) = Len(FirstChoiceCalls)
             /\ \A i \in DOMAIN uses :
                  /\ uses[i].id = FirstChoiceCalls[i].id
                  /\ uses[i].name = FirstChoiceCalls[i].function.name
        /\ ~anthropic_resp.ok <=>
             \/ openai_resp.choices = <<>>
             \/ \E i \in DOMAIN FirstChoiceCalls : ~IsJson(FirstChoiceCalls[i].function.arguments)
             \/ NoBlockProduced
        /\ ~anthropic_resp.ok => anthropic_resp.err[1].error_type = "api_error"

\* a thinking block, two tool_use blocks in upstream order and the text
C26_Witness ==
    /\ ResponseTranslated
    /\ FirstChoiceCalls = << OpenAIToolCall("c3", "g", <<"{", "}">>),
                             OpenAIToolCall("c1", "f", <<"{", "}">>) >>
    /\ anthropic_resp.value.content =
           << [type |-> "thinking", thinking |-> <<"t">>, signature |-> "auto"],
              ToolUseBlock("c3", "g", JsonObject),
              ToolUseBlock("c1", "f", JsonObject),
              TextBlock(<<"h">>) >>

\* the mapping as the specification states it
ExpectedStopReason(finish_reason) ==
    IF finish_reason = Some("length") THEN "max_tokens"
    ELSE IF finish_reason = Some("tool_calls") THEN "tool_use"
    ELSE "end_turn"

\* C27: the finish-reason mapping is total, deterministic and the same in
\* both paths: the non-stream mapping of openai_to_anthropic and the stream
\* mapping map_finish_reason both give stop -> end_turn, length ->
\* max_tokens, tool_calls -> tool_use and anything else -> end_turn; an
\* absent finish_reason gives end_turn in the non-stream path; the result
\* is always one of end_turn, max_tokens, tool_use, stop_sequence.
C27_FinishReasonMapping ==
    ResponseTranslated =>
        LET finish_reason == FirstChoice.finish_reason
            result == anthropic_resp.value.stop_reason IN
        /\ result = ExpectedStopReason(finish_reason)
        /\ finish_reason # None =>
             /\ result = map_finish_reason(finish_reason[1])
             /\ map_finish_reason(finish_reason[1]) = ExpectedStopReason(finish_reason)
        /\ finish_reason = None => result = "end_turn"
        /\ result \in { "end_turn", "max_tokens", "tool_use", "stop_sequence" }

\* a response without finish_reason
C27_Witness ==
    /\ ResponseTranslated
    /\ FirstChoice.finish_reason = None
    /\ anthropic_resp.value.stop_reason = "end_turn"

\* the request has string content only, roles of the dialect, and a system
\* that is absent or a string
TextOnlyRequest ==
    /\ tr_pc = "request_done"
    /\ \A i \in DOMAIN anthropic_req.messages :
         /\ anthropic_req.messages[i].content.kind = "text"
         /\ anthropic_req.messages[i].role \in { "user", "assistant" }
    /\ anthropic_req.system # None => anthropic_req.system[1].kind = "text"

\* the first choice is text and nothing else
TextOnlyResponse ==
    /\ tr_pc = "response_done"
    /\ openai_resp.choices # <<>>
    /\ FirstChoice.message.content # None
    /\ FirstChoice.message.tool_calls = None
    /\ FirstChoice.message.reasoning_content = None

\* the system text of a request that has a non-empty one
SystemTexts ==
    IF anthropic_req.system # None /\ anthropic_req.system[1].text # <<>>
    THEN << anthropic_req.system[1].text >>
    ELSE <<>>

\* C28: a text-only round trip preserves the stated fields.
\* anthropic_to_openai on a request with string content keeps model,
\* max_tokens (as max_completion_tokens), the stop sequences, the stream
\* flag and the text and role of every message, behind a leading system
\* message that carries the system text when there is one (an empty system
\* string makes no message). openai_to_anthropic on a response whose first
\* choice is text yields role assistant, the same id and model, exactly one
\* text block equal to the content, the stop_reason of the finish-reason
\* mapping, and the prompt and completion token counts as input and output
\* tokens, all zero when usage is absent.
C28_TextRoundTrip ==
    /\ TextOnlyRequest =>
         /\ openai_req.ok
         /\ LET out == openai_req.value
                n == Len(SystemTexts) IN
            /\ out.model = anthropic_req.model
            /\ out.max_completion_tokens = anthropic_req.max_tokens
            /\ out.stop = anthropic_req.stop_sequences
            /\ out.stream = anthropic_req.stream
            /\ Len(out.messages) = n + Len(anthropic_req.messages)
            /\ n = 1 =>
                 /\ out.messages[1].role = "system"
                 /\ out.messages[1].content = Some(OpenAIText(SystemTexts[1]))
            /\ \A i \in DOMAIN anthropic_req.messages :
                 /\ out.messages[n + i].role = anthropic_req.messages[i].role
                 /\ out.messages[n + i].content =
                        Some(OpenAIText(anthropic_req.messages[i].content.text))
                 /\ out.messages[n + i].tool_calls = None
    /\ TextOnlyResponse =>
         /\ anthropic_resp.ok
         /\ LET out == anthropic_resp.value IN
            /\ out.role = "assistant"
            /\ out.id = openai_resp.id
            /\ out.model = openai_resp.model
            /\ out.content = << TextBlock(FirstChoice.message.content[1]) >>
            /\ out.stop_reason = ExpectedStopReason(FirstChoice.finish_reason)
            /\ openai_resp.usage # None =>
                 /\ out.usage.input_tokens = openai_resp.usage[1].prompt_tokens
                 /\ out.usage.output_tokens = openai_resp.usage[1].completion_tokens
            /\ openai_resp.usage = None =>
                 /\ out.usage.input_tokens = 0
                 /\ out.usage.output_tokens = 0

\* the request of the round trip: a system string and two messages
C28_Witness ==
    /\ TextOnlyRequest
    /\ anthropic_req.system = Some(SystemText(<<"s">>))
    /\ anthropic_req.stop_sequences # None /\ anthropic_req.stream = Some(FALSE)
    /\ Len(anthropic_req.messages) = 2
    /\ Len(openai_req.value.messages) = 3
    /\ openai_req.value.messages[1].role = "system"

\* the response of the round trip, with usage
C28_WitnessResponse ==
    /\ TextOnlyResponse
    /\ openai_resp.usage # None
    /\ FirstChoice.finish_reason = Some("length")
    /\ anthropic_resp.value.content = << TextBlock(<<"h">>) >>
    /\ anthropic_resp.value.usage.input_tokens = 3

\* the one message of a request that consists of a message of blocks
BlockMessage == anthropic_req.messages[1]

BlockRequestDone ==
    /\ tr_pc = "request_done"
    /\ Len(anthropic_req.messages) = 1
    /\ BlockMessage.content.kind = "blocks"

\* the block makes convert_message buffer a part or emit a message
Separates(b) ==
    \/ b.type \in { "text", "image", "tool_result" }
    \/ b.type = "document" /\ tr_config.document_policy = "text_only"

RECURSIVE ToolRuns(_, _, _)
\* the ids of the tool_use blocks, grouped into runs that nothing separates
ToolRuns(blocks, runs, open) ==
    IF blocks = <<>> THEN runs
    ELSE LET b == Head(blocks) IN
         IF b.type = "tool_use"
         THEN IF open
              THEN ToolRuns(Tail(blocks),
                            [runs EXCEPT ![Len(runs)] = Append(@, b.id)], TRUE)
              ELSE ToolRuns(Tail(blocks), Append(runs, << b.id >>), TRUE)
         ELSE ToolRuns(Tail(blocks), runs, open /\ ~Separates(b))

CallIds(m) == [i \in DOMAIN m.tool_calls[1] |-> m.tool_calls[1][i].id]

\* C29: in an assistant message every tool_use block is appended to the
\* tool_calls of the most recently emitted message when that is an
\* assistant message with tool_calls and no content, and starts a new
\* assistant message with one tool call otherwise: k consecutive tool_use
\* blocks make one assistant message with k tool calls in block order, and
\* text buffered before them is flushed as a message of its own in front
\* of it. A tool_use block in a message of another role fails with
\* invalid_request_error.
C29_ToolUseAggregation ==
    BlockRequestDone =>
        LET blocks == BlockMessage.content.blocks IN
        /\ (openai_req.ok /\ BlockMessage.role = "assistant") =>
             LET msgs == openai_req.value.messages
                 calls == SelectSeq(msgs, HasToolCalls)
                 runs == ToolRuns(blocks, <<>>, FALSE) IN
             /\ Len(calls) = Len(runs)
             /\ \A i \in DOMAIN calls :
                  /\ CallIds(calls[i]) = runs[i]
                  /\ calls[i].role = "assistant"
                  /\ calls[i].content = None
             /\ \A i \in DOMAIN msgs : msgs[i].content = None <=> msgs[i].tool_calls # None
             /\ \A i \in DOMAIN blocks :
                  (i > 1 /\ blocks[i].type = "tool_use" /\ blocks[i - 1].type = "text") =>
                      \E j \in DOMAIN msgs :
                          /\ j > 1
                          /\ msgs[j].tool_calls # None
                          /\ msgs[j].tool_calls[1][1].id = blocks[i].id
                          /\ msgs[j - 1].content # None
                          /\ msgs[j - 1].role = "assistant"
        /\ (BlockMessage.role # "assistant" /\ \E i \in DOMAIN blocks : blocks[i].type = "tool_use") =>
             /\ ~openai_req.ok
             /\ openai_req.err[1].error_type = "invalid_request_error"

\* text, then two tool_use blocks: the text message, then one message with
\* both calls
C29_Witness ==
    /\ BlockRequestDone
    /\ BlockMessage.role = "assistant"
    /\ BlockMessage.content.blocks =
           << TextBlock(<<"h">>), ToolUseBlock("u1", "f", JsonObject),
              ToolUseBlock("u2", "g", JsonObject) >>
    /\ openai_req.ok
    /\ Len(openai_req.value.messages) = 2
    /\ openai_req.value.messages[1].content = Some(OpenAIText(<<"h">>))
    /\ CallIds(openai_req.value.messages[2]) = << "u1", "u2" >>

----------------------------------------------------------------------------
(* Audit log rotation                                                      *)

\* the worker takes a record off the queue in this step
Dequeues == dequeued' = dequeued + 1

\* the content of the file at path before the step (nothing if it is new)
Before(path) == IF path \in DOMAIN log_files THEN log_files[path] ELSE <<>>

\* in this step the record taken was written as one line at the end of the
\* file at path, and no other file changed
AppendedTo(path) ==
    /\ path \in DOMAIN log_files'
    /\ log_files'[path] = Before(path) \o << Line(last_io'.id, last_io'.len), Newline >>
    /\ \A other \in DOMAIN log_files' \ { path } :
         other \in DOMAIN log_files /\ log_files'[other] = log_files[other]

\* what the rotation rule asks of the step that takes a record
RotationRule ==
    IF current_size + last_io'.len + 1 > max_file_bytes
    THEN /\ file' = Some(build_log_path(base_path, clock))
         /\ current_path' = build_log_path(base_path, clock)
         /\ AppendedTo(file'[1])
         /\ current_size' = last_io'.len + 1
    ELSE /\ file' = file
         /\ AppendedTo(file[1])
         /\ current_size' = current_size + last_io'.len + 1

RECURSIVE Occurrences(_, _)
\* how often the line of record id occurs in a file
Occurrences(chunks, id) ==
    IF chunks = <<>> THEN 0
    ELSE (IF Head(chunks).id = id THEN 1 ELSE 0) + Occurrences(Tail(chunks), id)

RECURSIVE SumOccurrences(_, _)
SumOccurrences(paths, id) ==
    IF paths = {} THEN 0
    ELSE LET path == CHOOSE q \in paths : TRUE IN
         Occurrences(log_files[path], id) + SumOccurrences(paths \ { path }, id)

\* how often the line of record id occurs in all files
Written(id) == SumOccurrences(DOMAIN log_files, id)

IoSucceeds == last_io'.open_ok /\ last_io'.write_ok /\ last_io'.newline_ok

----------------------------------------------------------------------------
(* Header maps of audit records                                            *)

\* the header maps of the finished record, each with the HeaderMap it was
\* built from
RecordMaps ==
    IF audit_record = None
    THEN {}
    ELSE { [from |-> request_headers, map |-> audit_record[1].request],
           [from |-> response_headers, map |-> audit_record[1].response] }

\* the value iter() yields last for the name
LastValue(headers, name) ==
    headers[CHOOSE i \in DOMAIN headers :
                /\ headers[i].name = name
                /\ \A j \in DOMAIN headers : headers[j].name = name => j <= i].value

----------------------------------------------------------------------------
(* Tool blocks of a translated stream: arguments, stops, termination       *)

\* the input_json_delta events of block b in seq, joined in emission order
RECURSIVE JoinedInputJson(_, _)
JoinedInputJson(seq, b) ==
    IF seq = <<>> THEN <<>>
    ELSE IF IsDelta(Head(seq)) /\ Head(seq).index = b
            /\ Head(seq).typ = "input_json_delta"
         THEN Head(seq).data \o JoinedInputJson(Tail(seq), b)
         ELSE JoinedInputJson(Tail(seq), b)

C32_State ==
    \A k \in DOMAIN tool_calls :
        LET tool == tool_calls[k] IN
        IF tool.started
        THEN JoinedInputJson(tx, tool.block_index) = tool.arguments
        ELSE JoinedInputJson(tx, tool.block_index) = <<>>

\* what a step adds to the arguments of an entry is a suffix: the fragment
\* pushed onto it
C32_Step ==
    \A k \in DOMAIN tool_calls :
        /\ k \in DOMAIN tool_calls'
        /\ Len(tool_calls'[k].arguments) >= Len(tool_calls[k].arguments)
        /\ SubSeq(tool_calls'[k].arguments, 1, Len(tool_calls[k].arguments))
               = tool_calls[k].arguments

\* C32: for every tool block of a stream, the partial_json values of its
\* input_json_delta events, joined in emission order, are the arguments
\* accumulated for that upstream tool-call index, which only ever grow by
\* the fragment received; before the block has started nothing of it is
\* sent.
C32_ArgumentsDelivered == []C32_State /\ [][C32_Step]_vars

\* a block whose two fragments had both arrived when it started, so that
\* they went out joined in one delta right after content_block_start
C32_Witness ==
    \E k \in DOMAIN tool_calls :
        LET b == tool_calls[k].block_index IN
        /\ tool_calls[k].started
        /\ frames = 2
        /\ \E p \in StartsOf(b) :
             /\ Len(tx) = p + 1
             /\ tx[p + 1] = sse_block_delta(b, "input_json_delta", <<"{", "}">>)
        /\ DOMAIN tool_calls = { k }

C33_State ==
    \A q \in DOMAIN tx :
        IsStop(tx[q]) =>
            \E p \in DOMAIN tx : p < q /\ IsStart(tx[p]) /\ tx[p].index = tx[q].index

C33_Step ==
    \A k \in DOMAIN tool_calls :
        LET b == tool_calls[k].block_index
            new == NewEvents
        IN /\ ~tool_calls'[k].started =>
                 \A p \in DOMAIN new : ~(IsStop(new[p]) /\ new[p].index = b)
           /\ tool_calls[k].stopped =>
                 \A p \in DOMAIN new :
                     ~((IsStart(new[p]) \/ IsDelta(new[p])) /\ new[p].index = b)

\* C33 (as claimed): a content_block_stop is sent only for a block index
\* whose content_block_start was sent earlier in the stream; no step sends
\* the stop of a tool-call entry that has not started, and no step sends a
\* content_block_start or an input_json_delta for an entry already marked
\* stopped.
C33_StopsFollowStarts == []C33_State /\ [][C33_Step]_vars

IsTerminal(e) == e.event = "message_stop" \/ e.event = "error"

\* C34 (as claimed): when the drain task of a translate-mode stream has
\* ended, whatever ended it (the [DONE] line, an error, or the end of the
\* upstream bytes), it has sent exactly one terminal event, message_stop or
\* error, as its last event.
C34_OneTerminalEvent ==
    pc = "done" =>
        /\ tx # <<>>
        /\ IsTerminal(tx[Len(tx)])
        /\ \A p \in DOMAIN tx : IsTerminal(tx[p]) => p = Len(tx)

\* what the client and the caller see of a handler result: the events sent
\* and the error returned
Visible(r) == [tx |-> r.s.tx, err |-> r.err]

\* C35 (as claimed): the events a translate-mode stream sends are a
\* function of the upstream data lines: in every state of the drain task,
\* the next data line (a chunk or [DONE]) yields the same events, the same
\* error and the same number of stops before it, whatever order the
\* HashMap of tool-call entries is visited in.
C35_Deterministic ==
    pc = "drain" =>
        \A o1, o2 \in IterOrders :
            /\ Visible(flush_open_blocks(StreamStateNow, o1))
                   = Visible(flush_open_blocks(StreamStateNow, o2))
            /\ \A parsed \in Chunks :
                   Visible(handle_openai_chunk(StreamStateNow, parsed, o1))
                       = Visible(handle_openai_chunk(StreamStateNow, parsed, o2))

----------------------------------------------------------------------------
(* Line reassembly                                                         *)

\* the payloads handled when the whole byte sequence comes as one chunk
OneChunkPayloads(bytes) == drain_buffer(from_utf8_lossy(bytes), <<>>).payloads

\* C36 (as claimed): however the upstream bytes are split into chunks, the
\* drain loop has handled, when the task ends, the payloads it handles
\* when the same bytes come as one chunk: the data lines in order, without
\* the empty lines and the lines that lack the data: prefix, up to and
\* including [DONE].
C36_SplitIndependent ==
    split_pc = "done" => payloads = OneChunkPayloads(wire)

----------------------------------------------------------------------------
(* flush_open_blocks run twice                                             *)

\* the StreamState proper, without the channel and the count of flushes
Fields(s) == [s EXCEPT !.tx = <<>>, !.flushes = 0]

\* a flush that succeeds leaves a state in which a further flush succeeds,
\* sends nothing and changes nothing
C37_State ==
    \A o1, o2 \in IterOrders :
        LET first == flush_open_blocks(StreamStateNow, o1)
            second == flush_open_blocks(first.s, o2)
        IN first.err = None =>
               /\ second.err = None
               /\ second.s.tx = first.s.tx
               /\ Fields(second.s) = Fields(first.s)

\* every block is as a successful flush leaves it
Flushed ==
    /\ text_block_index = None
    /\ thinking_block_index = None
    /\ \A k \in DOMAIN tool_calls : tool_calls[k].stopped

\* the [DONE] line after a chunk with finish_reason and nothing since that
\* opened a block or created an entry: message_delta is the last event
\* sent, and the step that flushes again and ends the task adds
\* message_stop and nothing else
C37_Step ==
    ( /\ pc = "drain"
      /\ tx # <<>>
      /\ tx[Len(tx)].event = "message_delta"
      /\ Flushed
      /\ pc' = "done"
      /\ frames' = frames
      /\ flush_calls' = flush_calls + 1 )
    => /\ tx' = Append(tx, sse_message_stop)
       /\ Fields(StreamStateNow') = Fields(StreamStateNow)
       /\ metric_errors' = metric_errors

\* C37: flush_open_blocks is idempotent: a flush that follows a successful
\* flush with no delta in between succeeds, sends no event and changes no
\* state; in particular the [DONE] flush after the finish_reason flush
\* stops no block again.
C37_FlushIdempotent == []C37_State /\ [][C37_Step]_vars

\* a stream whose text block and tool block were stopped by the
\* finish_reason flush and which then ended with [DONE]
C37_Witness ==
    /\ pc = "done"
    /\ flush_calls = 2
    /\ Len(tx) >= 4
    /\ tx[Len(tx)] = sse_message_stop
    /\ tx[Len(tx) - 1].event = "message_delta"
    /\ IsStop(tx[Len(tx) - 2])
    /\ \E k \in DOMAIN tool_calls : tool_calls[k].stopped

----------------------------------------------------------------------------
(* Validation precedes admission                                           *)

ValidationPaths == { "missing_model", "not_in_allowlist", "blocked" }

\* request r has been rejected before it owned a slot
RejectedEarly(r) ==
    exit_path[r].path \in ValidationPaths \cup { "rate_limited" }

\* a request that has not passed validation, or was rejected by it or by
\* the admission test, owns neither a permit nor a guard
C38_State ==
    \A r \in Requests :
        (req_pc[r] = "start" \/ RejectedEarly(r)) =>
            r \notin holders /\ r \notin guards

\* the step that rejects a request for its model or for the rate limit
\* leaves the semaphore and the inflight counter as they were; a rate
\* limit rejection happens only with every permit held by a request that
\* passed validation
C38_Step ==
    \A r \in Requests :
        (req_pc[r] # "done" /\ req_pc'[r] = "done" /\ RejectedEarly(r)') =>
            /\ permits' = permits
            /\ holders' = holders
            /\ inflight_count' = inflight_count
            /\ guards' = guards
            /\ exit_path'[r].path = "rate_limited" =>
                   /\ permits = 0
                   /\ Cardinality(holders) = max_inflight
                   /\ \A h \in holders :
                          req_pc[h] # "start" /\ exit_path[h].path \notin ValidationPaths

\* C38: validation precedes admission: a request rejected for a missing or
\* empty model, by the allowlist or by the blocklist never owns an
\* inflight slot and leaves semaphore and counter unchanged, so it can
\* never be the reason a concurrent request is rejected with
\* rate_limit_error; a request rejected with rate_limit_error leaves the
\* counter unchanged too.
C38_ValidationBeforeAdmission == []C38_State /\ [][C38_Step]_vars

\* one request rejected by validation while the other one holds the slot
C38_Witness ==
    \E r, h \in Requests :
        /\ exit_path[r].path \in ValidationPaths
        /\ req_pc[r] = "done"
        /\ h \in holders
        /\ h \in guards
        /\ inflight_count = 1
        /\ request_seq[h] < request_seq[r]

----------------------------------------------------------------------------
(* reasoning_content of translated requests                                *)

\* C39 (as claimed): when anthropic_to_openai succeeds and no reasoning
\* effort is in force (no thinking directive, no budget_tokens, or a
\* budget below every threshold), no message it produced carries
\* reasoning_content; and a user, system or tool message never carries it.
C39_NoReasoningWithoutEffort ==
    RequestTranslated =>
        LET msgs == openai_req.value.messages IN
        /\ openai_req.value.reasoning_effort = None =>
               \A i \in DOMAIN msgs : msgs[i].reasoning_content = None
        /\ \A i \in DOMAIN msgs :
               msgs[i].role # "assistant" => msgs[i].reasoning_content = None

----------------------------------------------------------------------------
(* The audit worker's size counter                                         *)

\* the bytes in the file the worker's handle appends to; every log file
\* starts empty, so they are the bytes the worker wrote to it
BytesInCurrentFile == FileLen(log_files[file[1]])

\* C40 (as claimed): with every record's serialised length + 1 at most
\* max_file_bytes, the worker's size counter equals the number of bytes
\* the worker has written to the file it currently appends to, and after
\* a record has been written it does not exceed max_file_bytes, whatever
\* records came before and whether or not an open or a write failed or
\* two rotations fell into the same millisecond.
C40_SizeCounter ==
    (worker_pc = "running" /\ \A len \in RecordLens : len + 1 <= max_file_bytes) =>
        /\ current_size = BytesInCurrentFile
        /\ (dequeued > 0 /\ last_io.write_ok) => current_size <= max_file_bytes

====
